---- MODULE Spec2Model ----
(***************************************************************************)
(* Geometric pose classification of SpeakEase: the angle primitive         *)
(* angle_between_vectors_in_rad and the three classifiers                  *)
(* are_arms_folded, is_leaning and is_face_touched.                        *)
(*                                                                         *)
(* Numbers.  Coordinates are integers (pixels).  A Python float that the   *)
(* code only ever compares is represented exactly:                         *)
(*   - a distance sqrt(n) by its square n, so sqrt(a) * 2 >= sqrt(b) is    *)
(*     4 * a >= b and sqrt(n) < 100 is n < 100 * 100;                      *)
(*   - an angle acos(c) by its sector code (see Breakpoints): an           *)
(*     order-preserving integer code that is exact at every threshold the  *)
(*     code compares an angle with, and under which ERROR_OUTPUT = -1      *)
(*     compares with the thresholds as the float -1 does.                  *)
(* The one place where IEEE rounding changes the control flow, the check   *)
(* abs(cos_value) > 1, is modelled by RoundsAboveOne.                       *)
(* A relative coordinate or a score, a float in [0, 1], is the exact        *)
(* fraction <<numerator, denominator>>; the relative coordinates have a    *)
(* power of two as denominator, so that their products with the image's    *)
(* width and height are exact in IEEE double as well.                      *)
(***************************************************************************)
EXTENDS Integers, Sequences, FiniteSets

VARIABLES
    call,     \* the function the caller invokes in this run
    pose,     \* joint index -> Optional[Coord], the keypoint_list of one person
    vec,      \* <<x1, y1, x2, y2>>, the arguments of a direct angle call
    pc,       \* "ready" before the call, then "returned" or "raised"
    result,   \* the value returned (Unset before the call, or when it raised)
    raised,   \* the exception that left the call, "none" otherwise
    logger,   \* the levels of the records logged so far, in order
    inputs,   \* the arguments of a call of a node's run or of _obtain_keypoint
    node,     \* the attributes of the movement node (self)
    trace     \* the classifier calls the run in progress has made, in order

vars == <<call, pose, vec, pc, result, raised, logger, inputs, node, trace>>

----------------------------------------------------------------------------
(* Bounds of the model *)

\* components of the vectors passed to angle_between_vectors_in_rad: -MaxV..MaxV
MaxV == 3
\* pixel grid of the six arm joints: 0..ArmMaxX by 0..ArmMaxY
ArmMaxX == 2
ArmMaxY == 1
\* pixel grid of the shoulders and hips: 0..LeanMaxX by 0..LeanMaxY
LeanMaxX == 2
LeanMaxY == 4
\* at most this many of the nine face-touch inputs are defined in one pose
MaxDefined == 3
\* pixel coordinates of the face-touch inputs (distances 40, 60, 80, 100, ...)
FaceXs == {0, 60, 100}
FaceYs == {0, 80}

----------------------------------------------------------------------------
(* Values *)

\* Optional[Coord]: None, or the pair <<x, y>>
None == <<>>

Coord(x, y) == <<x, y>>

\* the result variable before a call returns
Unset == "unset"

\* PoseNet's skeletal key points
KP_NOSE == 0
KP_LEFT_EYE == 1
KP_RIGHT_EYE == 2
KP_LEFT_EAR == 3
KP_RIGHT_EAR == 4
KP_LEFT_SHOULDER == 5
KP_RIGHT_SHOULDER == 6
KP_LEFT_ELBOW == 7
KP_RIGHT_ELBOW == 8
KP_LEFT_WRIST == 9
KP_RIGHT_WRIST == 10
KP_LEFT_HIP == 11
KP_RIGHT_HIP == 12
KP_LEFT_KNEE == 13
KP_RIGHT_KNEE == 14
KP_LEFT_FOOT == 15
KP_RIGHT_FOOT == 16

Joints == KP_NOSE..KP_RIGHT_FOOT

\* the default output for encountered errors
ERROR_OUTPUT == -1

\* A call's outcome: the value it returns or the exception it raises, and the
\* levels of the log records it wrote.
Return(v, log) == [exc |-> "none", value |-> v, log |-> log]

Raise(e, log) == [exc |-> e, value |-> Unset, log |-> log]

\* x, y = c : unpacking None raises TypeError
Unpackable(c) == Len(c) = 2

min(a, b) == IF a <= b THEN a ELSE b

----------------------------------------------------------------------------
(* Wide numbers *)

\* Python integers and the floats computed from them are not limited to the
\* width of the integers of the checker.  A natural number that may exceed it
\* is held as the sequence of its digits to the base WBase, the least
\* significant first and the most significant not 0; zero is the empty sequence.
WBase == 10000

RECURSIVE Wide(_)
Wide(n) == IF n = 0 THEN <<>> ELSE <<n % WBase>> \o Wide(n \div WBase)

\* the least significant digit of a, and the other digits
Digit(a) == IF a = <<>> THEN 0 ELSE a[1]

Rest(a) == IF a = <<>> THEN <<>> ELSE Tail(a)

\* a + b + c, for a carry c
RECURSIVE WAdd(_, _, _)
WAdd(a, b, c) ==
    IF a = <<>> /\ b = <<>>
    THEN Wide(c)
    ELSE <<(Digit(a) + Digit(b) + c) % WBase>>
         \o WAdd(Rest(a), Rest(b), (Digit(a) + Digit(b) + c) \div WBase)

\* a * k + c, for a digit k > 0 and a carry c
RECURSIVE WScale(_, _, _)
WScale(a, k, c) ==
    IF a = <<>>
    THEN Wide(c)
    ELSE <<(a[1] * k + c) % WBase>> \o WScale(Tail(a), k, (a[1] * k + c) \div WBase)

\* a * WBase
WShift(a) == IF a = <<>> THEN <<>> ELSE <<0>> \o a

\* a * b
RECURSIVE WMul(_, _)
WMul(a, b) ==
    IF a = <<>> \/ b = <<>>
    THEN <<>>
    ELSE WAdd(IF b[1] = 0 THEN <<>> ELSE WScale(a, b[1], 0), WShift(WMul(a, Tail(b))), 0)

\* a < b
RECURSIVE WLess(_, _)
WLess(a, b) ==
    IF Len(a) # Len(b) THEN Len(a) < Len(b)
    ELSE IF a = <<>> THEN FALSE
    ELSE IF a[Len(a)] # b[Len(b)] THEN a[Len(a)] < b[Len(b)]
    ELSE WLess(SubSeq(a, 1, Len(a) - 1), SubSeq(b, 1, Len(b) - 1))

\* k * a, for a small natural number k
WTimes(k, a) == WMul(Wide(k), a)

----------------------------------------------------------------------------
(* Angles *)

\* The angles, in degrees, that the code and its tests compare an angle with:
\* 0, pi/4, pi/2 - 15 deg, pi/2, pi/2 + 15 deg, 2 pi / 3, 3 pi / 4, pi.
Breakpoints == <<0, 45, 75, 90, 105, 120, 135, 180>>

\* Sector code of a breakpoint: 2 * (its position, from 0).  An angle
\* strictly between two neighbouring breakpoints has the odd code in between.
Rad(deg) == 2 * ((CHOOSE i \in 1..Len(Breakpoints) : Breakpoints[i] = deg) - 1)

pi == Rad(180)

\* d2 / nn > cos(75 deg)^2 = (2 - sqrt 3) / 4, for d2 = dot_prod^2 and
\* nn = |v1|^2 |v2|^2: 4 d2 - 2 nn > - sqrt(3) nn.  Never an equality on integers.
AboveCos75Sq(d2, nn) == 4 * d2 >= 2 * nn \/ (2 * nn - 4 * d2) * (2 * nn - 4 * d2) < 3 * nn * nn

\* Sector code of the angle whose cosine has the square d2 / nn, in [0, 90] degrees
AcuteCode(d2, nn) ==
    IF d2 = nn THEN Rad(0)
    ELSE IF 2 * d2 > nn THEN Rad(0) + 1
    ELSE IF 2 * d2 = nn THEN Rad(45)
    ELSE IF AboveCos75Sq(d2, nn) THEN Rad(45) + 1
    ELSE IF d2 > 0 THEN Rad(75) + 1
    ELSE Rad(90)

\* the same for the angles in [90, 180] degrees (the cosine is negative)
ObtuseCode(d2, nn) ==
    IF d2 = nn THEN Rad(180)
    ELSE IF 2 * d2 > nn THEN Rad(135) + 1
    ELSE IF 2 * d2 = nn THEN Rad(135)
    ELSE IF 4 * d2 > nn THEN Rad(120) + 1
    ELSE IF 4 * d2 = nn THEN Rad(120)
    ELSE IF AboveCos75Sq(d2, nn) THEN Rad(105) + 1
    ELSE IF d2 > 0 THEN Rad(90) + 1
    ELSE Rad(90)

\* an arc function with a signed range: the angle is negated when the cosine is
\* negative
acos_signed(dot_prod, n1, n2) ==
    IF dot_prod >= 0
    THEN AcuteCode(dot_prod * dot_prod, n1 * n2)
    ELSE -AcuteCode(dot_prod * dot_prod, n1 * n2)

\* AboveCos75Sq on wide numbers: for 4 d2 < 2 nn, (2 nn - 4 d2)^2 < 3 nn^2 is
\* nn^2 + 16 d2^2 < 16 nn d2
AboveCos75SqWide(d2, nn) ==
    \/ ~WLess(WTimes(4, d2), WTimes(2, nn))
    \/ WLess(WAdd(WMul(nn, nn), WTimes(16, WMul(d2, d2)), 0), WTimes(16, WMul(nn, d2)))

\* AcuteCode on wide numbers
AcuteWide(d2, nn) ==
    IF d2 = nn THEN Rad(0)
    ELSE IF WLess(nn, WTimes(2, d2)) THEN Rad(0) + 1
    ELSE IF WTimes(2, d2) = nn THEN Rad(45)
    ELSE IF AboveCos75SqWide(d2, nn) THEN Rad(45) + 1
    ELSE IF d2 # <<>> THEN Rad(75) + 1
    ELSE Rad(90)

\* ObtuseCode on wide numbers
ObtuseWide(d2, nn) ==
    IF d2 = nn THEN Rad(180)
    ELSE IF WLess(nn, WTimes(2, d2)) THEN Rad(135) + 1
    ELSE IF WTimes(2, d2) = nn THEN Rad(135)
    ELSE IF WLess(nn, WTimes(4, d2)) THEN Rad(120) + 1
    ELSE IF WTimes(4, d2) = nn THEN Rad(120)
    ELSE IF AboveCos75SqWide(d2, nn) THEN Rad(105) + 1
    ELSE IF d2 # <<>> THEN Rad(90) + 1
    ELSE Rad(90)

\* squared magnitudes up to which dot_prod^2, n1 * n2 and the products that
\* AboveCos75Sq forms of them stay within the width of the checker's integers
NarrowNorm == 150

\* acos(dot_prod / (v1_magnitude * v2_magnitude)) as a sector code, with
\* n1 = v1_magnitude^2 and n2 = v2_magnitude^2
acos(dot_prod, n1, n2) ==
    IF n1 <= NarrowNorm /\ n2 <= NarrowNorm
    THEN IF dot_prod >= 0
         THEN AcuteCode(dot_prod * dot_prod, n1 * n2)
         ELSE ObtuseCode(dot_prod * dot_prod, n1 * n2)
    ELSE IF dot_prod >= 0
         THEN AcuteWide(WMul(Wide(dot_prod), Wide(dot_prod)), WMul(Wide(n1), Wide(n2)))
         ELSE ObtuseWide(WMul(Wide(-dot_prod), Wide(-dot_prod)), WMul(Wide(n1), Wide(n2)))

\* The squared magnitudes <<n1, n2>> (each at most 50) of parallel integer
\* vectors for which the IEEE double sqrt(n1) * sqrt(n2) is rounded below
\* |dot_prod| = sqrt(n1 * n2), so that the quotient cos_value exceeds 1 in
\* magnitude: sqrt(13.0) * sqrt(13.0) = 12.999999999999998, and so on.  For
\* every other pair of integer vectors of these magnitudes |cos_value| <= 1,
\* and so it is for vectors of any magnitude that are not parallel: the model
\* holds no parallel vectors of a squared magnitude above 50.
RoundsAboveOne == {<<13, 13>>, <<18, 18>>, <<26, 26>>, <<29, 29>>, <<37, 37>>}

\* abs(cos_value) > 1
CosOutOfDomain(dot_prod, n1, n2) ==
    /\ <<n1, n2>> \in RoundsAboveOne
    /\ dot_prod * dot_prod = n1 * n2

\* angle_between_vectors_in_rad whose zero-vector check reads "x == y == 0" for
\* the first vector only
angle_between_vectors_in_rad_first_only(x1, y1, x2, y2) ==
    IF x1 = y1 /\ y1 = 0
    THEN Return(ERROR_OUTPUT, <<"error">>)
    ELSE LET dot_prod == x1 * x2 + y1 * y2
             n1 == x1 * x1 + y1 * y1
             n2 == x2 * x2 + y2 * y2
         IN  IF n1 = 0 \/ n2 = 0
             THEN Raise("ZeroDivisionError", <<>>)
             ELSE IF CosOutOfDomain(dot_prod, n1, n2)
             THEN Return(ERROR_OUTPUT, <<"error">>)
             ELSE Return(acos(dot_prod, n1, n2), <<>>)

\* angle_between_vectors_in_rad whose zero-vector check reads "x == y == 0" for
\* the second vector only
angle_between_vectors_in_rad_second_only(x1, y1, x2, y2) ==
    IF x2 = y2 /\ y2 = 0
    THEN Return(ERROR_OUTPUT, <<"error">>)
    ELSE LET dot_prod == x1 * x2 + y1 * y2
             n1 == x1 * x1 + y1 * y1
             n2 == x2 * x2 + y2 * y2
         IN  IF n1 = 0 \/ n2 = 0
             THEN Raise("ZeroDivisionError", <<>>)
             ELSE IF CosOutOfDomain(dot_prod, n1, n2)
             THEN Return(ERROR_OUTPUT, <<"error">>)
             ELSE Return(acos(dot_prod, n1, n2), <<>>)

angle_between_vectors_in_rad(x1, y1, x2, y2) ==
    \* x1 == y1 == 0 is the chained comparison x1 == y1 and y1 == 0
    IF (x1 = y1 /\ y1 = 0) \/ (x2 = y2 /\ y2 = 0)
    THEN Return(ERROR_OUTPUT, <<"error">>)
    ELSE LET dot_prod == x1 * x2 + y1 * y2
             n1 == x1 * x1 + y1 * y1
             n2 == x2 * x2 + y2 * y2
         IN  IF n1 = 0 \/ n2 = 0
             THEN Raise("ZeroDivisionError", <<>>)
             ELSE IF CosOutOfDomain(dot_prod, n1, n2)
             THEN Return(ERROR_OUTPUT, <<"error">>)
             ELSE Return(acos(dot_prod, n1, n2), <<>>)

----------------------------------------------------------------------------
(* A direct call of the angle primitive *)

Vectors == (-MaxV..MaxV) \X (-MaxV..MaxV) \X (-MaxV..MaxV) \X (-MaxV..MaxV)

NoPose == [j \in Joints |-> None]

NoVec == <<>>

NoInputs == <<>>

\* Node.__init__: the attributes of a node that has processed no frame yet
Node__init__ ==
    [_img |-> None,
     _arm_fold_count |-> 0,
     _leaning_count |-> 0,
     _face_touch_count |-> 0,
     _total_frame_count |-> 0]

\* a function called on its own, outside a run: no arguments of a run, a new
\* node, no calls made by a run
Standalone ==
    /\ inputs = NoInputs
    /\ node = Node__init__
    /\ trace = <<>>

Ready(c) ==
    /\ call = c
    /\ pc = "ready"
    /\ result = Unset
    /\ raised = "none"
    /\ logger = <<>>

\* the caller receives the outcome r of the call
Finish(r) ==
    /\ pc' = IF r.exc = "none" THEN "returned" ELSE "raised"
    /\ result' = r.value
    /\ raised' = r.exc
    /\ logger' = logger \o r.log
    /\ UNCHANGED <<call, pose, vec, inputs, node, trace>>

InitAngle ==
    /\ Ready("angle_between_vectors_in_rad")
    /\ Standalone
    /\ pose = NoPose
    /\ vec \in Vectors

CallAngle ==
    /\ call = "angle_between_vectors_in_rad"
    /\ pc = "ready"
    /\ Finish(angle_between_vectors_in_rad(vec[1], vec[2], vec[3], vec[4]))

SpecAngle == InitAngle /\ [][CallAngle]_vars

----------------------------------------------------------------------------
(* are_arms_folded *)

\* arm_folded with the distance condition made strict
arm_folded_strict_dist(angle, wrist_x, wrist_y, left_shoulder_x, left_shoulder_y, right_shoulder_x, right_shoulder_y, dist2, shoulder_dist2) ==
    /\ angle < Rad(120)
    /\ right_shoulder_x <= wrist_x /\ wrist_x <= left_shoulder_x
    /\ wrist_y > min(left_shoulder_y, right_shoulder_y)
    /\ 4 * dist2 > shoulder_dist2

\* arm_folded without the condition on the height of the wrist
arm_folded_any_height(angle, wrist_x, wrist_y, left_shoulder_x, left_shoulder_y, right_shoulder_x, right_shoulder_y, dist2, shoulder_dist2) ==
    /\ angle < Rad(120)
    /\ right_shoulder_x <= wrist_x /\ wrist_x <= left_shoulder_x
    /\ 4 * dist2 >= shoulder_dist2

\* arm_folded that takes the shoulders in either order
arm_folded_either_order(angle, wrist_x, wrist_y, left_shoulder_x, left_shoulder_y, right_shoulder_x, right_shoulder_y, dist2, shoulder_dist2) ==
    /\ angle < Rad(120)
    /\ min(left_shoulder_x, right_shoulder_x) <= wrist_x
    /\ wrist_x <= left_shoulder_x + right_shoulder_x - min(left_shoulder_x, right_shoulder_x)
    /\ wrist_y > min(left_shoulder_y, right_shoulder_y)
    /\ 4 * dist2 >= shoulder_dist2

\* left_folded / right_folded: the four conditions on one arm, with dist2 the
\* square of the elbow-to-wrist distance and shoulder_dist2 that of shoulder_dist
arm_folded(angle, wrist_x, wrist_y, left_shoulder_x, left_shoulder_y, right_shoulder_x, right_shoulder_y, dist2, shoulder_dist2) ==
    /\ angle < Rad(120)
    /\ right_shoulder_x <= wrist_x /\ wrist_x <= left_shoulder_x
    /\ wrist_y > min(left_shoulder_y, right_shoulder_y)
    /\ 4 * dist2 >= shoulder_dist2

\* either_angle_in_error with "and" for "or"
both_angles_in_error(left_angle, right_angle) ==
    left_angle = ERROR_OUTPUT /\ right_angle = ERROR_OUTPUT

\* left_angle == ERROR_OUTPUT or right_angle == ERROR_OUTPUT
either_angle_in_error(left_angle, right_angle) ==
    left_angle = ERROR_OUTPUT \/ right_angle = ERROR_OUTPUT

\* the body of are_arms_folded after the check that the keypoints are defined
arms_folded_geometry(left_shoulder, left_elbow, left_wrist, right_shoulder, right_elbow, right_wrist) ==
    \* Obtain coordinates
    IF \E c \in {left_shoulder, left_elbow, left_wrist, right_shoulder, right_elbow, right_wrist} :
           ~Unpackable(c)
    THEN Raise("TypeError", <<>>)
    ELSE
    LET left_shoulder_x == left_shoulder[1]
        left_shoulder_y == left_shoulder[2]
        right_shoulder_x == right_shoulder[1]
        right_shoulder_y == right_shoulder[2]
        left_elbow_x == left_elbow[1]
        left_elbow_y == left_elbow[2]
        right_elbow_x == right_elbow[1]
        right_elbow_y == right_elbow[2]
        left_wrist_x == left_wrist[1]
        left_wrist_y == left_wrist[2]
        right_wrist_x == right_wrist[1]
        right_wrist_y == right_wrist[2]
        \* Calculate relevant vectors
        left_shoulder_elbow_vec == <<left_shoulder_x - left_elbow_x, left_shoulder_y - left_elbow_y>>
        left_wrist_elbow_vec == <<left_wrist_x - left_elbow_x, left_wrist_y - left_elbow_y>>
        right_shoulder_elbow_vec == <<right_shoulder_x - right_elbow_x, right_shoulder_y - right_elbow_y>>
        right_wrist_elbow_vec == <<right_wrist_x - right_elbow_x, right_wrist_y - right_elbow_y>>
        \* the two calls of the angle primitive
        left == angle_between_vectors_in_rad(left_shoulder_elbow_vec[1], left_shoulder_elbow_vec[2],
                                             left_wrist_elbow_vec[1], left_wrist_elbow_vec[2])
        right == angle_between_vectors_in_rad(right_shoulder_elbow_vec[1], right_shoulder_elbow_vec[2],
                                              right_wrist_elbow_vec[1], right_wrist_elbow_vec[2])
        left_angle == left.value
        right_angle == right.value
        \* squares of left_dist, right_dist and shoulder_dist
        left_dist2 == (left_wrist_x - left_elbow_x) * (left_wrist_x - left_elbow_x)
                      + (left_wrist_y - left_elbow_y) * (left_wrist_y - left_elbow_y)
        right_dist2 == (right_wrist_x - right_elbow_x) * (right_wrist_x - right_elbow_x)
                       + (right_wrist_y - right_elbow_y) * (right_wrist_y - right_elbow_y)
        shoulder_dist2 == (right_shoulder_x - left_shoulder_x) * (right_shoulder_x - left_shoulder_x)
                          + (right_shoulder_y - left_shoulder_y) * (right_shoulder_y - left_shoulder_y)
        \* Check if left arm is folded
        left_folded == arm_folded(left_angle, left_wrist_x, left_wrist_y, left_shoulder_x, left_shoulder_y,
                                  right_shoulder_x, right_shoulder_y, left_dist2, shoulder_dist2)
        \* Check if right arm is folded
        right_folded == arm_folded(right_angle, right_wrist_x, right_wrist_y, left_shoulder_x, left_shoulder_y,
                                   right_shoulder_x, right_shoulder_y, right_dist2, shoulder_dist2)
    IN  IF left.exc # "none" THEN Raise(left.exc, left.log)
        ELSE IF right.exc # "none" THEN Raise(right.exc, left.log \o right.log)
        ELSE IF either_angle_in_error(left_angle, right_angle)
        THEN Return(FALSE, left.log \o right.log \o <<"warning">>)
        ELSE Return(left_folded /\ right_folded, left.log \o right.log)

\* are_arms_folded whose check of the keypoints leaves out the right wrist
are_arms_folded_unchecked_wrist(left_shoulder, left_elbow, left_wrist, right_shoulder, right_elbow, right_wrist) ==
    IF \/ left_shoulder = None
       \/ left_elbow = None
       \/ left_wrist = None
       \/ right_shoulder = None
       \/ right_elbow = None
    THEN Return(FALSE, <<>>)
    ELSE arms_folded_geometry(left_shoulder, left_elbow, left_wrist,
                              right_shoulder, right_elbow, right_wrist)

are_arms_folded(left_shoulder, left_elbow, left_wrist, right_shoulder, right_elbow, right_wrist) ==
    \* Check if keypoints are defined
    IF \/ left_shoulder = None
       \/ left_elbow = None
       \/ left_wrist = None
       \/ right_shoulder = None
       \/ right_elbow = None
       \/ right_wrist = None
    THEN Return(FALSE, <<>>)
    ELSE arms_folded_geometry(left_shoulder, left_elbow, left_wrist,
                              right_shoulder, right_elbow, right_wrist)

ArmJoints == {KP_LEFT_SHOULDER, KP_LEFT_ELBOW, KP_LEFT_WRIST,
              KP_RIGHT_SHOULDER, KP_RIGHT_ELBOW, KP_RIGHT_WRIST}

ArmCoords == {Coord(x, y) : x \in 0..ArmMaxX, y \in 0..ArmMaxY}

\* Optional[Coord] over a set of coordinates
Optional(cs) == cs \cup {None}

InitArms ==
    /\ Ready("are_arms_folded")
    /\ Standalone
    /\ vec = NoVec
    /\ \E left_shoulder, left_elbow, left_wrist \in Optional(ArmCoords) :
       \E right_shoulder, right_elbow, right_wrist \in Optional(ArmCoords) :
          pose = [NoPose EXCEPT ![KP_LEFT_SHOULDER] = left_shoulder,
                                ![KP_LEFT_ELBOW] = left_elbow,
                                ![KP_LEFT_WRIST] = left_wrist,
                                ![KP_RIGHT_SHOULDER] = right_shoulder,
                                ![KP_RIGHT_ELBOW] = right_elbow,
                                ![KP_RIGHT_WRIST] = right_wrist]

CallArmsFolded ==
    /\ call = "are_arms_folded"
    /\ pc = "ready"
    /\ Finish(are_arms_folded(pose[KP_LEFT_SHOULDER], pose[KP_LEFT_ELBOW], pose[KP_LEFT_WRIST],
                              pose[KP_RIGHT_SHOULDER], pose[KP_RIGHT_ELBOW], pose[KP_RIGHT_WRIST]))

SpecArms == InitArms /\ [][CallArmsFolded]_vars

----------------------------------------------------------------------------
(* is_leaning *)

\* outside_tolerance without the test of the right angle above the tolerance
outside_tolerance_no_right_upper(left_angle, right_angle) ==
    LET sway_threshold == Rad(90) - Rad(75)
    IN  \/ left_angle < Rad(90) - sway_threshold
        \/ right_angle < Rad(90) - sway_threshold
        \/ left_angle > Rad(90) + sway_threshold

\* Check if either side has crossed the threshold for leaning; sway_threshold
\* is 15 degrees, so pi/2 - sway_threshold is 75 and pi/2 + sway_threshold 105 degrees
outside_tolerance(left_angle, right_angle) ==
    LET sway_threshold == Rad(90) - Rad(75)
    IN  \/ left_angle < Rad(90) - sway_threshold
        \/ right_angle < Rad(90) - sway_threshold
        \/ left_angle > Rad(90) + sway_threshold
        \/ right_angle > Rad(90) + sway_threshold

\* the body of is_leaning whose left angle takes the left shoulder's x from
\* the origin of the image instead of from the left hip
leaning_geometry_shoulder_from_origin(left_shoulder, right_shoulder, left_hip, right_hip) ==
    IF \E c \in {left_shoulder, right_shoulder, left_hip, right_hip} : ~Unpackable(c)
    THEN Raise("TypeError", <<>>)
    ELSE
    LET left_shoulder_x == left_shoulder[1]
        left_shoulder_y == left_shoulder[2]
        right_shoulder_x == right_shoulder[1]
        right_shoulder_y == right_shoulder[2]
        left_hip_x == left_hip[1]
        left_hip_y == left_hip[2]
        right_hip_x == right_hip[1]
        right_hip_y == right_hip[2]
        left == angle_between_vectors_in_rad(left_shoulder_x, left_shoulder_y - left_hip_y,
                                             right_hip_x - left_hip_x, right_hip_y - left_hip_y)
        right == angle_between_vectors_in_rad(right_shoulder_x - right_hip_x, right_shoulder_y - right_hip_y,
                                              left_hip_x - right_hip_x, left_hip_y - right_hip_y)
    IN  IF left.exc # "none" THEN Raise(left.exc, left.log)
        ELSE IF right.exc # "none" THEN Raise(right.exc, left.log \o right.log)
        ELSE Return(outside_tolerance(left.value, right.value), left.log \o right.log)

\* the body of is_leaning after the check that the keypoints are defined
leaning_geometry(left_shoulder, right_shoulder, left_hip, right_hip) ==
    IF \E c \in {left_shoulder, right_shoulder, left_hip, right_hip} : ~Unpackable(c)
    THEN Raise("TypeError", <<>>)
    ELSE
    LET left_shoulder_x == left_shoulder[1]
        left_shoulder_y == left_shoulder[2]
        right_shoulder_x == right_shoulder[1]
        right_shoulder_y == right_shoulder[2]
        left_hip_x == left_hip[1]
        left_hip_y == left_hip[2]
        right_hip_x == right_hip[1]
        right_hip_y == right_hip[2]
        left == angle_between_vectors_in_rad(left_shoulder_x - left_hip_x, left_shoulder_y - left_hip_y,
                                             right_hip_x - left_hip_x, right_hip_y - left_hip_y)
        right == angle_between_vectors_in_rad(right_shoulder_x - right_hip_x, right_shoulder_y - right_hip_y,
                                              left_hip_x - right_hip_x, left_hip_y - right_hip_y)
    IN  IF left.exc # "none" THEN Raise(left.exc, left.log)
        ELSE IF right.exc # "none" THEN Raise(right.exc, left.log \o right.log)
        ELSE Return(outside_tolerance(left.value, right.value), left.log \o right.log)

\* is_leaning whose check of the keypoints leaves out the right hip
is_leaning_unchecked_hip(left_shoulder, right_shoulder, left_hip, right_hip) ==
    IF \/ left_shoulder = None
       \/ left_hip = None
       \/ right_shoulder = None
    THEN Return(FALSE, <<>>)
    ELSE leaning_geometry(left_shoulder, right_shoulder, left_hip, right_hip)

is_leaning(left_shoulder, right_shoulder, left_hip, right_hip) ==
    \* Check if keypoints are defined
    IF \/ left_shoulder = None
       \/ left_hip = None
       \/ right_shoulder = None
       \/ right_hip = None
    THEN Return(FALSE, <<>>)
    ELSE leaning_geometry(left_shoulder, right_shoulder, left_hip, right_hip)

LeanJoints == {KP_LEFT_SHOULDER, KP_RIGHT_SHOULDER, KP_LEFT_HIP, KP_RIGHT_HIP}

LeanCoords == {Coord(x, y) : x \in 0..LeanMaxX, y \in 0..LeanMaxY}

InitLean ==
    /\ Ready("is_leaning")
    /\ Standalone
    /\ vec = NoVec
    /\ \E left_shoulder, right_shoulder, left_hip, right_hip \in Optional(LeanCoords) :
          pose = [NoPose EXCEPT ![KP_LEFT_SHOULDER] = left_shoulder,
                                ![KP_RIGHT_SHOULDER] = right_shoulder,
                                ![KP_LEFT_HIP] = left_hip,
                                ![KP_RIGHT_HIP] = right_hip]

CallIsLeaning ==
    /\ call = "is_leaning"
    /\ pc = "ready"
    /\ Finish(is_leaning(pose[KP_LEFT_SHOULDER], pose[KP_RIGHT_SHOULDER],
                         pose[KP_LEFT_HIP], pose[KP_RIGHT_HIP]))

SpecLean == InitLean /\ [][CallIsLeaning]_vars

----------------------------------------------------------------------------
(* is_face_touched *)

\* touching with "dist <= threshold"
touching_inclusive(limb_coordinate, face_coordinate) ==
    LET threshold == 100
        limb_x == limb_coordinate[1]
        limb_y == limb_coordinate[2]
        face_x == face_coordinate[1]
        face_y == face_coordinate[2]
        dist2 == (limb_x - face_x) * (limb_x - face_x) + (limb_y - face_y) * (limb_y - face_y)
    IN  dist2 <= threshold * threshold

\* dist < threshold, for dist the distance between limb joint and facial
\* feature joint: sqrt(n) < 100 is n < 100 * 100 on integers
touching(limb_coordinate, face_coordinate) ==
    LET threshold == 100
        limb_x == limb_coordinate[1]
        limb_y == limb_coordinate[2]
        face_x == face_coordinate[1]
        face_y == face_coordinate[2]
        dist2 == (limb_x - face_x) * (limb_x - face_x) + (limb_y - face_y) * (limb_y - face_y)
    IN  dist2 < threshold * threshold

\* face_coordinate_is_none that also takes the falsy-looking origin for None
face_coordinate_is_none_or_origin(face_coordinate) ==
    face_coordinate = None \/ face_coordinate = Coord(0, 0)

\* face_coordinate_is_none that never skips
face_coordinate_never_none(face_coordinate) == FALSE

\* if face_coordinate is None: continue
face_coordinate_is_none(face_coordinate) == face_coordinate = None

\* The nested loops over the limb and the face coordinates, from the k-th pair
\* on (pairs in iteration order: limbs outermost), up to the first pair that
\* touches.
RECURSIVE scan_pairs(_, _, _)
scan_pairs(limbs, faces, k) ==
    IF k > Len(limbs) * Len(faces)
    THEN Return(FALSE, <<>>)  \* No pair of coordinates satisfies the distance threshold
    ELSE LET limb_coordinate == limbs[((k - 1) \div Len(faces)) + 1]
             face_coordinate == faces[((k - 1) % Len(faces)) + 1]
         IN  IF limb_coordinate = None THEN scan_pairs(limbs, faces, k + 1)
             ELSE IF face_coordinate_is_none(face_coordinate) THEN scan_pairs(limbs, faces, k + 1)
             ELSE IF ~Unpackable(limb_coordinate) \/ ~Unpackable(face_coordinate)
             THEN Raise("TypeError", <<>>)
             ELSE IF touching(limb_coordinate, face_coordinate) THEN Return(TRUE, <<>>)
             ELSE scan_pairs(limbs, faces, k + 1)

\* the first of the coordinates that is defined
FirstDefined(coords) ==
    coords[CHOOSE k \in DOMAIN coords : coords[k] # None /\ \A m \in 1..(k - 1) : coords[m] = None]

\* is_face_touched that decides on the first defined limb and the first
\* defined facial feature alone
is_face_touched_first_pair(left_elbow, right_elbow, left_wrist, right_wrist, nose, left_eye, right_eye, left_ear, right_ear) ==
    IF \/ \A c \in {left_elbow, right_elbow, left_wrist, right_wrist} : c = None
       \/ \A c \in {nose, left_eye, right_eye, left_ear, right_ear} : c = None
    THEN Return(FALSE, <<>>)
    ELSE Return(touching(FirstDefined(<<left_elbow, right_elbow, left_wrist, right_wrist>>),
                         FirstDefined(<<nose, left_eye, right_eye, left_ear, right_ear>>)), <<>>)

\* is_face_touched whose list of facial features leaves out the right ear
is_face_touched_no_right_ear(left_elbow, right_elbow, left_wrist, right_wrist, nose, left_eye, right_eye, left_ear, right_ear) ==
    scan_pairs(<<left_elbow, right_elbow, left_wrist, right_wrist>>,
               <<nose, left_eye, right_eye, left_ear>>, 1)

is_face_touched(left_elbow, right_elbow, left_wrist, right_wrist, nose, left_eye, right_eye, left_ear, right_ear) ==
    scan_pairs(<<left_elbow, right_elbow, left_wrist, right_wrist>>,
               <<nose, left_eye, right_eye, left_ear, right_ear>>, 1)

LimbJoints == {KP_LEFT_ELBOW, KP_RIGHT_ELBOW, KP_LEFT_WRIST, KP_RIGHT_WRIST}

FaceJoints == {KP_NOSE, KP_LEFT_EYE, KP_RIGHT_EYE, KP_LEFT_EAR, KP_RIGHT_EAR}

FaceCoords == {Coord(x, y) : x \in FaceXs, y \in FaceYs}

\* poses in which at most MaxDefined of the nine inputs are defined
InitFace ==
    /\ Ready("is_face_touched")
    /\ Standalone
    /\ vec = NoVec
    /\ \E defined \in SUBSET (LimbJoints \cup FaceJoints) :
          /\ Cardinality(defined) <= MaxDefined
          /\ \E f \in [defined -> FaceCoords] :
                pose = [j \in Joints |-> IF j \in defined THEN f[j] ELSE None]

CallIsFaceTouched ==
    /\ call = "is_face_touched"
    /\ pc = "ready"
    /\ Finish(is_face_touched(pose[KP_LEFT_ELBOW], pose[KP_RIGHT_ELBOW],
                              pose[KP_LEFT_WRIST], pose[KP_RIGHT_WRIST],
                              pose[KP_NOSE], pose[KP_LEFT_EYE], pose[KP_RIGHT_EYE],
                              pose[KP_LEFT_EAR], pose[KP_RIGHT_EAR]))

SpecFace == InitFace /\ [][CallIsFaceTouched]_vars

\* the three classifiers, each called once on a pose of its own
SpecClassifiers ==
    (InitArms \/ InitLean \/ InitFace) /\ [][CallArmsFolded \/ CallIsLeaning \/ CallIsFaceTouched]_vars

----------------------------------------------------------------------------
(* Keypoints: relative coordinates, confidence scores, the displayed image *)

\* the fraction num / den, with den > 0
Frac(num, den) == <<num, den>>

\* a < b on fractions
Less(a, b) == a[1] * b[2] < b[1] * a[2]

\* rounding with the halves rounded up
round_half_up(num, den) == (2 * num + den) \div (2 * den)

\* round(num / den), num >= 0 and den > 0: Python rounds a half to the even
\* neighbour
round(num, den) ==
    LET floor == num \div den
        rest == num % den
    IN  IF 2 * rest < den THEN floor
        ELSE IF 2 * rest > den THEN floor + 1
        ELSE IF floor % 2 = 0 THEN floor
        ELSE floor + 1

\* the threshold confidence, 0.6
_THRESHOLD == Frac(6, 10)

\* An image is represented by its shape <<height, width>>, the only thing the
\* nodes read from it.
height(self) == IF self._img = None THEN ERROR_OUTPUT ELSE self._img[1]

width(self) == IF self._img = None THEN ERROR_OUTPUT ELSE self._img[2]

_map_coord_onto_img(self, x, y) ==
    IF width(self) = ERROR_OUTPUT \/ height(self) = ERROR_OUTPUT
    THEN Return(Coord(ERROR_OUTPUT, ERROR_OUTPUT), <<"error">>)
    ELSE Return(Coord(round(x[1] * width(self), x[2]), round(y[1] * height(self), y[2])), <<>>)

\* _obtain_keypoint that also drops a keypoint whose score equals the threshold
_obtain_keypoint_above_threshold(self, keypoint, score) ==
    IF ~Less(_THRESHOLD, score)
    THEN Return(None, <<>>)
    ELSE _map_coord_onto_img(self, keypoint[1], keypoint[2])

_obtain_keypoint(self, keypoint, score) ==
    IF Less(score, _THRESHOLD)
    THEN Return(None, <<>>)
    ELSE _map_coord_onto_img(self, keypoint[1], keypoint[2])

\* relative coordinates, scores and image shapes of the direct calls
RelValues == {Frac(0, 1), Frac(1, 4), Frac(1, 2), Frac(3, 4), Frac(1, 1)}

Scores == {Frac(0, 1), Frac(59, 100), Frac(6, 10), Frac(61, 100), Frac(1, 1)}

SmallShapes == {<<1, 1>>, <<2, 5>>, <<3, 4>>}

\* _obtain_keypoint is called on a node without an image, or in a run that
\* has set the image
InitKeypoint ==
    /\ Ready("_obtain_keypoint")
    /\ pose = NoPose
    /\ vec = NoVec
    /\ trace = <<>>
    /\ \E shape \in {None} \cup SmallShapes : node = [Node__init__ EXCEPT !._img = shape]
    /\ \E x \in RelValues : \E y \in RelValues : \E score \in Scores :
          inputs = [keypoint |-> <<x, y>>, score |-> score]

Call_obtain_keypoint ==
    /\ call = "_obtain_keypoint"
    /\ pc = "ready"
    /\ Finish(_obtain_keypoint(node, inputs.keypoint, inputs.score))

SpecKeypoint == InitKeypoint /\ [][Call_obtain_keypoint]_vars

----------------------------------------------------------------------------
(* The inputs of a node's run: lists, dictionaries, keypoints of persons *)

\* A Python list is a function on 0 .. len - 1, a dictionary a function on
\* its keys.
EmptyList == <<>>

EmptyDict == <<>>

\* the list with the elements of the sequence s
List(s) == [i \in 0..(Len(s) - 1) |-> s[i + 1]]

\* dict.get(key, default)
get(dict, key, default) == IF key \in DOMAIN dict THEN dict[key] ELSE default

\* dict[key] = item on a dictionary that is emptied first
setitem_emptied(dict, key, item) == [k \in {key} |-> item]

\* dict[key] = item
setitem(dict, key, item) == [k \in DOMAIN dict \cup {key} |-> IF k = key THEN item ELSE dict[k]]

int(b) == IF b THEN 1 ELSE 0

\* at most this many persons (keypoint sets, ids, score lists) in a frame
MaxPersons == 2

\* the lists of at most MaxPersons elements of S
Lists(S) == UNION {[0..(n - 1) -> S] : n \in 0..MaxPersons}

\* The relative coordinate of the pixel (x, y) of an image 256 wide and high
At(x, y) == <<Frac(x, 256), Frac(y, 256)>>

\* The 17 keypoints of a person, in PoseNet's order.  The wrists are placed
\* for folded or for stretched arms, the hips are level below the shoulders
\* or shifted to the side, the face is near the arms or far below them.
Person(arms, hips, face) ==
    LET face_y == IF face = "near" THEN 1 ELSE 250
    IN  List(<<At(2, face_y), At(3, face_y), At(1, face_y), At(5, face_y), At(6, face_y),
               At(4, 0), At(0, 0),
               At(4, 2), At(0, 3),
               IF arms = "folded" THEN At(1, 2) ELSE At(4, 4),
               IF arms = "folded" THEN At(3, 3) ELSE At(0, 5),
               IF hips = "level" THEN At(4, 6) ELSE At(7, 6),
               IF hips = "level" THEN At(0, 6) ELSE At(3, 6),
               At(4, 8), At(0, 8), At(4, 9), At(0, 9)>>)

People == {Person(arms, hips, face) : arms \in {"folded", "stretched"}, hips \in {"level", "shifted"}, face \in {"near", "far"}}

\* img.shape of the frames: <<height, width>>
Shapes == {<<256, 256>>, <<128, 256>>}

\* tracking ids
Ids == {1, 2}

----------------------------------------------------------------------------
(* The classifier nodes: run of are_arms_folded, is_leaning, is_touching_face *)

obtain_keypoint(rel_x, rel_y, img_width, img_height) ==
    Coord(round(rel_x[1] * img_width, rel_x[2]), round(rel_y[1] * img_height, rel_y[2]))

\* are_arms_folded_indices with the elbows and the wrists exchanged
are_arms_folded_indices_wrist_first ==
    <<KP_LEFT_SHOULDER, KP_LEFT_WRIST, KP_LEFT_ELBOW,
      KP_RIGHT_SHOULDER, KP_RIGHT_WRIST, KP_RIGHT_ELBOW>>

\* the indices of keypoint_list in the arguments of each classifier's call
are_arms_folded_indices ==
    <<KP_LEFT_SHOULDER, KP_LEFT_ELBOW, KP_LEFT_WRIST,
      KP_RIGHT_SHOULDER, KP_RIGHT_ELBOW, KP_RIGHT_WRIST>>

is_face_touched_indices ==
    <<KP_LEFT_ELBOW, KP_RIGHT_ELBOW, KP_LEFT_WRIST, KP_RIGHT_WRIST,
      KP_NOSE, KP_LEFT_EYE, KP_RIGHT_EYE, KP_LEFT_EAR, KP_RIGHT_EAR>>

\* the indices of is_leaning in the variant that measures the lean at the knees
is_leaning_indices_knees == <<KP_LEFT_SHOULDER, KP_RIGHT_SHOULDER, KP_LEFT_KNEE, KP_RIGHT_KNEE>>

is_leaning_indices == <<KP_LEFT_SHOULDER, KP_RIGHT_SHOULDER, KP_LEFT_HIP, KP_RIGHT_HIP>>

indices(fn) ==
    CASE fn = "are_arms_folded" -> are_arms_folded_indices
      [] fn = "is_face_touched" -> is_face_touched_indices
      [] fn = "is_leaning" -> is_leaning_indices

\* fn(*args)
apply(fn, args) ==
    CASE fn = "are_arms_folded" ->
           are_arms_folded(args[1], args[2], args[3], args[4], args[5], args[6])
      [] fn = "is_face_touched" ->
           is_face_touched(args[1], args[2], args[3], args[4], args[5], args[6], args[7], args[8], args[9])
      [] fn = "is_leaning" ->
           is_leaning(args[1], args[2], args[3], args[4])

\* the arguments keypoint_list[...] of the call of fn
arguments(fn, keypoint_list) == [k \in DOMAIN indices(fn) |-> keypoint_list[indices(fn)[k]]]

\* the call of fn with args and the outcome r
made_call(fn, args, r) ==
    [fn |-> fn, args |-> args, exc |-> r.exc, value |-> r.value, log |-> r.log]

\* The call fn(keypoint_list[...], ...): its arguments, and the value it
\* returns or the exception it raises.  Subscripting a list beyond its end
\* raises IndexError while the arguments are evaluated.
call_classifier(fn, keypoint_list) ==
    IF \E k \in DOMAIN indices(fn) : indices(fn)[k] \notin DOMAIN keypoint_list
    THEN made_call(fn, <<>>, Raise("IndexError", <<>>))
    ELSE made_call(fn, arguments(fn, keypoint_list), apply(fn, arguments(fn, keypoint_list)))

\* the entry of a call in the trace
Traced(c) == [fn |-> c.fn, args |-> c.args, exc |-> c.exc, value |-> c.value]

\* keypoint_list = [obtain_keypoint(*keypoint.tolist(), img_width=width,
\*                  img_height=height) for keypoint in keypoints]
\* with height, width, *_ = shape
classifier_keypoint_list(keypoints, shape) ==
    [j \in DOMAIN keypoints |->
        obtain_keypoint(keypoints[j][1], keypoints[j][2], shape[2], shape[1])]

\* for curr_id, keypoints in zip(all_ids, all_keypoints), from position i on;
\* out holds the output dictionary, the log and the trace so far.  The loop
\* goes on with the next position after the call c it has made, unless the
\* call raised.
RECURSIVE classifier_loop(_, _, _, _, _, _)
RECURSIVE classifier_loop_on(_, _, _, _, _, _, _)
classifier_loop_on(fn, all_ids, all_keypoints, shape, i, out, c) ==
    IF c.exc # "none"
    THEN [exc |-> c.exc, value |-> Unset, log |-> out.log \o c.log,
          trace |-> Append(out.trace, Traced(c))]
    ELSE classifier_loop(fn, all_ids, all_keypoints, shape, i + 1,
             [dict |-> setitem(out.dict, all_ids[i], int(c.value)),
              log |-> out.log \o c.log,
              trace |-> Append(out.trace, Traced(c))])

classifier_loop(fn, all_ids, all_keypoints, shape, i, out) ==
    IF i \notin DOMAIN all_ids \/ i \notin DOMAIN all_keypoints
    THEN [exc |-> "none", value |-> out.dict, log |-> out.log, trace |-> out.trace]
    ELSE classifier_loop_on(fn, all_ids, all_keypoints, shape, i, out,
             call_classifier(fn, classifier_keypoint_list(all_keypoints[i], shape)))

\* return {output_key: ...} after the loop, unless the loop raised
classifier_return(output_key, loop) ==
    [exc |-> loop.exc,
     value |-> IF loop.exc = "none" THEN [k \in {output_key} |-> loop.value] ELSE Unset,
     log |-> loop.log,
     trace |-> loop.trace]

\* run of a classifier node that subscripts inputs with 'keypoints' and
\* 'obj_attrs' and with 'ids'
classifier_run_subscripting(fn, output_key, inputs_) ==
    IF "img" \notin DOMAIN inputs_
    THEN [exc |-> "none", value |-> [k \in {output_key} |-> EmptyDict],
          log |-> <<"error">>, trace |-> <<>>]
    ELSE IF \/ "keypoints" \notin DOMAIN inputs_
            \/ "obj_attrs" \notin DOMAIN inputs_
            \/ "ids" \notin DOMAIN inputs_["obj_attrs"]
    THEN [exc |-> "KeyError", value |-> Unset, log |-> <<>>, trace |-> <<>>]
    ELSE classifier_return(output_key,
             classifier_loop(fn, inputs_["obj_attrs"]["ids"], inputs_["keypoints"],
                             inputs_["img"], 0,
                             [dict |-> EmptyDict, log |-> <<>>, trace |-> <<>>]))

\* run of the node whose classifier is fn and whose output key is output_key
classifier_run(fn, output_key, inputs_) ==
    IF "img" \notin DOMAIN inputs_
    THEN [exc |-> "none", value |-> [k \in {output_key} |-> EmptyDict],
          log |-> <<"error">>, trace |-> <<>>]
    ELSE classifier_return(output_key,
             classifier_loop(fn,
                             get(get(inputs_, "obj_attrs", EmptyDict), "ids", EmptyList),
                             get(inputs_, "keypoints", EmptyList),
                             inputs_["img"],
                             0,
                             [dict |-> EmptyDict,
                              log |-> IF "keypoints" \notin DOMAIN inputs_
                                      THEN <<"warning">>
                                      ELSE <<>>,
                              trace |-> <<>>]))

are_arms_folded_run(inputs_) == classifier_run("are_arms_folded", "arms_folded", inputs_)

is_leaning_run(inputs_) == classifier_run("is_leaning", "is_leaning", inputs_)

is_touching_face_run(inputs_) == classifier_run("is_face_touched", "is_touching_face", inputs_)

\* the caller receives the outcome r of a run
FinishRun(r) ==
    /\ pc' = IF r.exc = "none" THEN "returned" ELSE "raised"
    /\ result' = r.value
    /\ raised' = r.exc
    /\ logger' = logger \o r.log
    /\ trace' = r.trace
    /\ UNCHANGED <<call, pose, vec, inputs, node>>

\* the dictionary with the given keys, out of the three a classifier node reads
Inputs(keys, shape, all_keypoints, obj_attrs) ==
    [k \in keys |-> CASE k = "img" -> shape
                      [] k = "keypoints" -> all_keypoints
                      [] k = "obj_attrs" -> obj_attrs]

\* obj_attrs with the tracking ids, and without them
ObjAttrs == {EmptyDict} \cup {[k \in {"ids"} |-> ids] : ids \in Lists(Ids)}

InitRun ==
    /\ \E c \in {"are_arms_folded.run", "is_leaning.run", "is_touching_face.run"} : Ready(c)
    /\ pose = NoPose
    /\ vec = NoVec
    /\ node = Node__init__
    /\ trace = <<>>
    /\ \E keys \in SUBSET {"img", "keypoints", "obj_attrs"} :
       \E shape \in Shapes : \E all_keypoints \in Lists(People) : \E obj_attrs \in ObjAttrs :
          inputs = Inputs(keys, shape, all_keypoints, obj_attrs)

RunArmsFolded ==
    /\ call = "are_arms_folded.run"
    /\ pc = "ready"
    /\ FinishRun(are_arms_folded_run(inputs))

RunIsLeaning ==
    /\ call = "is_leaning.run"
    /\ pc = "ready"
    /\ FinishRun(is_leaning_run(inputs))

RunIsTouchingFace ==
    /\ call = "is_touching_face.run"
    /\ pc = "ready"
    /\ FinishRun(is_touching_face_run(inputs))

SpecRun == InitRun /\ [][RunArmsFolded \/ RunIsLeaning \/ RunIsTouchingFace]_vars

----------------------------------------------------------------------------
(* The movement node: run, over the frames of a video *)

frames_before_summary == 200

\* at most this many frames with an image are processed
MaxFrames == 2

\* for keypoint, keypoint_score in zip(keypoints, keypoint_scores):
\*     keypoint_list.append(self._obtain_keypoint(keypoint.tolist(), keypoint_score))
\* (run has set the image, so that _map_coord_onto_img logs nothing)
movement_keypoint_list(self, keypoints, keypoint_scores) ==
    [j \in DOMAIN keypoints \cap DOMAIN keypoint_scores |->
        _obtain_keypoint(self, keypoints[j], keypoint_scores[j]).value]

\* classify in which arms, once counted as folded, stay folded
classify_remembering(self, keypoint_list) ==
    LET arms_folded == call_classifier("are_arms_folded", keypoint_list)
    IN  <<IF arms_folded.exc = "none" /\ self._arm_fold_count > 0
          THEN [arms_folded EXCEPT !.value = TRUE]
          ELSE arms_folded,
          call_classifier("is_face_touched", keypoint_list),
          call_classifier("is_leaning", keypoint_list)>>

\* the three calls made for one person, in order: self.are_arms_folded(...),
\* self.is_face_touched(...), self.is_leaning(...)
classify(self, keypoint_list) ==
    <<call_classifier("are_arms_folded", keypoint_list),
      call_classifier("is_face_touched", keypoint_list),
      call_classifier("is_leaning", keypoint_list)>>

\* the log records and the trace entries of the first n calls of cs
RECURSIVE logs(_, _)
logs(cs, n) == IF n = 0 THEN <<>> ELSE logs(cs, n - 1) \o cs[n].log

traces(cs, n) == [k \in 1..n |-> Traced(cs[k])]

\* the first of the calls cs that raises, 0 when none does
first_raising(cs) ==
    IF \A k \in DOMAIN cs : cs[k].exc = "none"
    THEN 0
    ELSE CHOOSE k \in DOMAIN cs : cs[k].exc # "none" /\ \A m \in 1..(k - 1) : cs[m].exc = "none"

\* self._arm_fold_count += arms_folded, and so on, for the calls cs
counted(self, cs) ==
    [self EXCEPT !._arm_fold_count = @ + int(cs[1].value),
                 !._face_touch_count = @ + int(cs[2].value),
                 !._leaning_count = @ + int(cs[3].value)]

\* The body of the loop for one person after the calls cs, of which the ones
\* up to the first that raises are made; when none raises the counters are
\* incremented.
person_step(self, cs) ==
    IF first_raising(cs) # 0
    THEN [exc |-> cs[first_raising(cs)].exc, self |-> self,
          log |-> logs(cs, first_raising(cs)), trace |-> traces(cs, first_raising(cs))]
    ELSE [exc |-> "none", self |-> counted(self, cs),
          log |-> logs(cs, 3), trace |-> traces(cs, 3)]

\* for bbox, bbox_score, keypoints, keypoint_scores in
\*     zip(bboxes, bbox_scores, all_keypoints, all_keypoint_scores), from
\* position i on; out holds self, the log and the trace so far.  The loop
\* goes on with the next position after the step p of a person, unless a
\* call raised.
RECURSIVE movement_loop(_, _, _, _, _, _)
RECURSIVE movement_loop_on(_, _, _, _, _, _, _)
movement_loop_on(bboxes, bbox_scores, all_keypoints, all_keypoint_scores, i, out, p) ==
    IF p.exc # "none"
    THEN [exc |-> p.exc, self |-> p.self, log |-> out.log \o p.log,
          trace |-> out.trace \o p.trace]
    ELSE movement_loop(bboxes, bbox_scores, all_keypoints, all_keypoint_scores, i + 1,
             [self |-> p.self, log |-> out.log \o p.log, trace |-> out.trace \o p.trace])

movement_loop(bboxes, bbox_scores, all_keypoints, all_keypoint_scores, i, out) ==
    IF \/ i \notin DOMAIN bboxes
       \/ i \notin DOMAIN bbox_scores
       \/ i \notin DOMAIN all_keypoints
       \/ i \notin DOMAIN all_keypoint_scores
    THEN [exc |-> "none", self |-> out.self, log |-> out.log, trace |-> out.trace]
    ELSE movement_loop_on(bboxes, bbox_scores, all_keypoints, all_keypoint_scores, i, out,
             person_step(out.self,
                 classify(out.self,
                     movement_keypoint_list(out.self, all_keypoints[i], all_keypoint_scores[i]))))

\* one warning for each of the four metadata keys that is missing
missing_warnings(inputs_) ==
    LET missing == {"bboxes", "bbox_scores", "keypoints", "keypoint_scores"} \ DOMAIN inputs_
    IN  [k \in 1..Cardinality(missing) |-> "warning"]

\* self._total_frame_count += 1
frame_counted(self) == [self EXCEPT !._total_frame_count = @ + 1]

\* the statistics are logged every frames_before_summary frames
summary(self) ==
    IF self._total_frame_count % frames_before_summary = 0 THEN <<"info">> ELSE <<>>

\* the end of run after the loop: the frame is counted and {} returned,
\* unless the loop raised
movement_return(loop) ==
    IF loop.exc # "none"
    THEN [exc |-> loop.exc, value |-> Unset, log |-> loop.log, trace |-> loop.trace,
          self |-> loop.self]
    ELSE [exc |-> "none", value |-> EmptyDict,
          log |-> loop.log \o summary(frame_counted(loop.self)),
          trace |-> loop.trace, self |-> frame_counted(loop.self)]

\* Node.run of the movement node; self in the outcome holds the node's
\* attributes when run is left
movement_run(self, inputs_) ==
    IF "img" \notin DOMAIN inputs_
    THEN [exc |-> "none", value |-> EmptyDict, log |-> <<"error">>, trace |-> <<>>, self |-> self]
    ELSE movement_return(
             movement_loop(get(inputs_, "bboxes", EmptyList),
                           get(inputs_, "bbox_scores", EmptyList),
                           get(inputs_, "keypoints", EmptyList),
                           get(inputs_, "keypoint_scores", EmptyList),
                           0,
                           [self |-> [self EXCEPT !._img = inputs_["img"]],
                            log |-> missing_warnings(inputs_),
                            trace |-> <<>>]))

\* keypoint_scores of one person: every joint confident, both wrists below
\* the threshold, and a list that ends after the right wrist
High == [j \in Joints |-> Frac(9, 10)]

LowWrists == [j \in Joints |-> IF j \in {KP_LEFT_WRIST, KP_RIGHT_WRIST} THEN Frac(5, 10) ELSE Frac(9, 10)]

Short == [j \in KP_NOSE..KP_RIGHT_WRIST |-> Frac(9, 10)]

ScoreLists == {High, LowWrists, Short}

\* the persons in front of the camera
Crowd ==
    {Person("folded", "level", "near"), Person("folded", "shifted", "far"),
     Person("stretched", "shifted", "far"), Person("stretched", "level", "far")}

MovementKeys == {"img", "bboxes", "bbox_scores", "keypoints", "keypoint_scores"}

\* every key is present, or one is missing
KeySets == {MovementKeys} \cup {MovementKeys \ {k} : k \in MovementKeys}

\* the dictionary with the given keys for n detected boxes
MovementInputs(keys, shape, n, all_keypoints, all_keypoint_scores) ==
    [k \in keys |-> CASE k = "img" -> shape
                      [] k = "bboxes" -> [i \in 0..(n - 1) |-> "bbox"]
                      [] k = "bbox_scores" -> [i \in 0..(n - 1) |-> Frac(9, 10)]
                      [] k = "keypoints" -> all_keypoints
                      [] k = "keypoint_scores" -> all_keypoint_scores]

\* a new node, before the pipeline's first frame
InitMovement ==
    /\ call = "movement.run"
    /\ pc = "idle"
    /\ result = Unset
    /\ raised = "none"
    /\ logger = <<>>
    /\ pose = NoPose
    /\ vec = NoVec
    /\ inputs = NoInputs
    /\ node = Node__init__
    /\ trace = <<>>

\* the pipeline has the inputs of the next frame ready for the node; logger
\* holds the records of the run in progress
OfferFrame ==
    /\ call = "movement.run"
    /\ pc = "idle"
    /\ node._total_frame_count < MaxFrames
    /\ \E keys \in KeySets : \E shape \in Shapes : \E n \in 0..MaxPersons :
       \E all_keypoints \in Lists(Crowd) : \E all_keypoint_scores \in Lists(ScoreLists) :
          inputs' = MovementInputs(keys, shape, n, all_keypoints, all_keypoint_scores)
    /\ pc' = "ready"
    /\ UNCHANGED <<call, pose, vec, result, raised, logger, node, trace>>

\* the pipeline receives the outcome r of the movement node's run, and the
\* node keeps the attributes the run has given it
FinishMovement(r) ==
    /\ pc' = IF r.exc = "none" THEN "returned" ELSE "raised"
    /\ result' = r.value
    /\ raised' = r.exc
    /\ logger' = logger \o r.log
    /\ trace' = r.trace
    /\ node' = r.self
    /\ UNCHANGED <<call, pose, vec, inputs>>

RunMovement ==
    /\ call = "movement.run"
    /\ pc = "ready"
    /\ FinishMovement(movement_run(node, inputs))

\* the pipeline takes the outputs; the node waits for the next frame
TakeOutputs ==
    /\ call = "movement.run"
    /\ pc = "returned"
    /\ pc' = "idle"
    /\ inputs' = NoInputs
    /\ result' = Unset
    /\ logger' = <<>>
    /\ trace' = <<>>
    /\ UNCHANGED <<call, pose, vec, raised, node>>

SpecMovement == InitMovement /\ [][OfferFrame \/ RunMovement \/ TakeOutputs]_vars

----------------------------------------------------------------------------
(* One frame of the detector, passed to a classifier node or to the movement node *)

\* keypoint_scores of one person: every joint below the threshold, and the
\* five points of the face below it
Low == [j \in Joints |-> Frac(1, 10)]

LowFace == [j \in Joints |-> IF j \in FaceJoints THEN Frac(59, 100) ELSE Frac(9, 10)]

DetectorScores == {High, LowWrists, LowFace, Low}

DetectorKeys == MovementKeys \cup {"obj_attrs"}

\* What the pose estimation model and the tracker put into the pipeline for a
\* frame: the image, and for each detected person a box, its score, the
\* keypoints, their scores and a tracking id.
DetectorOutput(shape, all_keypoints, all_keypoint_scores) ==
    [k \in DetectorKeys |->
        IF k = "obj_attrs"
        THEN [a \in {"ids"} |-> [i \in DOMAIN all_keypoints |-> i + 1]]
        ELSE MovementInputs(MovementKeys, shape, Cardinality(DOMAIN all_keypoints),
                            all_keypoints, all_keypoint_scores)[k]]

InitFrame ==
    /\ \E c \in {"are_arms_folded.run", "is_leaning.run", "is_touching_face.run", "movement.run"} :
          Ready(c)
    /\ pose = NoPose
    /\ vec = NoVec
    /\ node = Node__init__
    /\ trace = <<>>
    /\ \E shape \in Shapes : \E n \in 1..MaxPersons :
       \E all_keypoints \in [0..(n - 1) -> Crowd] :
       \E all_keypoint_scores \in [0..(n - 1) -> DetectorScores] :
          inputs = DetectorOutput(shape, all_keypoints, all_keypoint_scores)

SpecFrame == InitFrame /\ [][RunArmsFolded \/ RunIsLeaning \/ RunIsTouchingFace \/ RunMovement]_vars

----------------------------------------------------------------------------
(* The statistics node: run of draw/stats.py, over the frames of a video *)

\* defaultdict(int): dict[key] += item
add(dict, key, item) == setitem(dict, key, get(dict, key, 0) + item)

\* Node.__init__ of the statistics node: the four counters by tracking id
Stats__init__ ==
    [_total_frames |-> EmptyDict,
     _arms_folded_frames |-> EmptyDict,
     _leaning_frames |-> EmptyDict,
     _touching_face_frames |-> EmptyDict]

\* Calculate the statistics, with the total of a person set to 1
stats_count_total_once(self, curr_id, all_arms_folded, all_leaning, all_touching_face) ==
    [_total_frames |-> setitem(self._total_frames, curr_id, 1),
     _arms_folded_frames |-> add(self._arms_folded_frames, curr_id, get(all_arms_folded, curr_id, 0)),
     _leaning_frames |-> add(self._leaning_frames, curr_id, get(all_leaning, curr_id, 0)),
     _touching_face_frames |-> add(self._touching_face_frames, curr_id, get(all_touching_face, curr_id, 0))]

\* Calculate the statistics
stats_count(self, curr_id, all_arms_folded, all_leaning, all_touching_face) ==
    [_total_frames |-> add(self._total_frames, curr_id, 1),
     _arms_folded_frames |-> add(self._arms_folded_frames, curr_id, get(all_arms_folded, curr_id, 0)),
     _leaning_frames |-> add(self._leaning_frames, curr_id, get(all_leaning, curr_id, 0)),
     _touching_face_frames |-> add(self._touching_face_frames, curr_id, get(all_touching_face, curr_id, 0))]

\* for curr_id, bbox, bbox_score, keypoints in
\*     zip(all_ids, bboxes, bbox_scores, all_keypoints), from position i on
RECURSIVE stats_loop(_, _, _)
stats_loop(self, inputs_, i) ==
    IF \/ i \notin DOMAIN get(get(inputs_, "obj_attrs", EmptyDict), "ids", EmptyList)
       \/ i \notin DOMAIN get(inputs_, "bboxes", EmptyList)
       \/ i \notin DOMAIN get(inputs_, "bbox_scores", EmptyList)
       \/ i \notin DOMAIN get(inputs_, "keypoints", EmptyList)
    THEN self
    ELSE stats_loop(stats_count(self,
                                get(get(inputs_, "obj_attrs", EmptyDict), "ids", EmptyList)[i],
                                get(inputs_, "arms_folded", EmptyDict),
                                get(inputs_, "is_leaning", EmptyDict),
                                get(inputs_, "is_touching_face", EmptyDict)),
                    inputs_, i + 1)

\* reading dict[key] for each of the keys: a defaultdict(int) gets the entries
\* it lacks
read(dict, keys) == [k \in DOMAIN dict \cup keys |-> get(dict, k, 0)]

\* the ids whose total is 0: the quotients of their statistics divide by zero
ZeroTotals(self) == {id \in DOMAIN self._total_frames : self._total_frames[id] = 0}

\* the ids of sorted(self._total_frames) before the id z
Before(self, z) == {id \in DOMAIN self._total_frames : id < z}

\* the display of the statistics stops at the id z, whose first quotient
\* raises after its dividend has been read
stats_display_raise(self, z) ==
    [exc |-> "ZeroDivisionError",
     self |-> [self EXCEPT !._arms_folded_frames = read(@, Before(self, z) \cup {z}),
                           !._leaning_frames = read(@, Before(self, z)),
                           !._touching_face_frames = read(@, Before(self, z))]]

\* Output the statistics for each detected person:
\* for i, curr_id in enumerate(sorted(self._total_frames)), with the three
\* quotients self._..._frames[curr_id] / self._total_frames[curr_id]
stats_display(self) ==
    IF ZeroTotals(self) # {}
    THEN stats_display_raise(self, CHOOSE z \in ZeroTotals(self) : \A y \in ZeroTotals(self) : z <= y)
    ELSE [exc |-> "none",
          self |-> [self EXCEPT !._arms_folded_frames = read(@, DOMAIN self._total_frames),
                                !._leaning_frames = read(@, DOMAIN self._total_frames),
                                !._touching_face_frames = read(@, DOMAIN self._total_frames)]]

\* one warning for each of the four metadata keys that is missing
stats_missing_warnings(inputs_) ==
    [k \in 1..Cardinality({"bboxes", "bbox_scores", "keypoints", "obj_attrs"} \ DOMAIN inputs_) |-> "warning"]

\* return {} after the statistics are shown, unless their display raised
stats_return(log, shown) ==
    [exc |-> shown.exc,
     value |-> IF shown.exc = "none" THEN EmptyDict ELSE Unset,
     log |-> log,
     trace |-> <<>>,
     self |-> shown.self]

\* run that counts a frame without an image for the ids it names
stats_run_without_img(self, inputs_) ==
    stats_return(IF "img" \in DOMAIN inputs_ THEN stats_missing_warnings(inputs_) ELSE <<"error">>,
                 stats_display(stats_loop(self, inputs_, 0)))

\* Node.run of the statistics node; self in the outcome holds the node's
\* attributes when run is left
stats_run(self, inputs_) ==
    IF "img" \notin DOMAIN inputs_
    THEN [exc |-> "none", value |-> EmptyDict, log |-> <<"error">>, trace |-> <<>>, self |-> self]
    ELSE stats_return(stats_missing_warnings(inputs_), stats_display(stats_loop(self, inputs_, 0)))

StatsKeys ==
    {"img", "bboxes", "bbox_scores", "keypoints", "obj_attrs",
     "arms_folded", "is_leaning", "is_touching_face"}

\* every key is present, or one is missing
StatsKeySets == {StatsKeys} \cup {StatsKeys \ {k} : k \in {"img", "obj_attrs", "arms_folded"}}

\* outputs of a classifier node: 0 or 1 for the ids it has classified
Flags == {EmptyDict, [id \in {1} |-> 1], [id \in Ids |-> IF id = 1 THEN 0 ELSE 1]}

\* the dictionary with the given keys for n detected boxes, the tracking ids
\* and the outputs of the three classifier nodes
StatsInputs(keys, ids, n, arms_folded, leaning, touching_face) ==
    [k \in keys |-> CASE k = "img" -> <<256, 256>>
                      [] k = "bboxes" -> [i \in 0..(n - 1) |-> "bbox"]
                      [] k = "bbox_scores" -> [i \in 0..(n - 1) |-> Frac(9, 10)]
                      [] k = "keypoints" -> [i \in 0..(n - 1) |-> Person("folded", "level", "near")]
                      [] k = "obj_attrs" -> [a \in {"ids"} |-> ids]
                      [] k = "arms_folded" -> arms_folded
                      [] k = "is_leaning" -> leaning
                      [] k = "is_touching_face" -> touching_face]

\* a new node, before the pipeline's first frame
InitStats ==
    /\ call = "stats.run"
    /\ pc = "idle"
    /\ result = Unset
    /\ raised = "none"
    /\ logger = <<>>
    /\ pose = NoPose
    /\ vec = NoVec
    /\ inputs = NoInputs
    /\ node = Stats__init__
    /\ trace = <<>>

\* the pipeline has the inputs of the next frame ready for the node, as long
\* as no person has been counted in MaxFrames frames
OfferStats ==
    /\ call = "stats.run"
    /\ pc = "idle"
    /\ \A id \in DOMAIN node._total_frames : node._total_frames[id] < MaxFrames
    /\ \E keys \in StatsKeySets : \E ids \in Lists(Ids) : \E n \in {1, MaxPersons} :
       \E arms_folded, leaning, touching_face \in Flags :
          inputs' = StatsInputs(keys, ids, n, arms_folded, leaning, touching_face)
    /\ pc' = "ready"
    /\ UNCHANGED <<call, pose, vec, result, raised, logger, node, trace>>

RunStats ==
    /\ call = "stats.run"
    /\ pc = "ready"
    /\ FinishMovement(stats_run(node, inputs))

\* the pipeline takes the outputs; the node waits for the next frame
TakeStats ==
    /\ call = "stats.run"
    /\ pc = "returned"
    /\ pc' = "idle"
    /\ inputs' = NoInputs
    /\ result' = Unset
    /\ logger' = <<>>
    /\ UNCHANGED <<call, pose, vec, raised, node, trace>>

SpecStats == InitStats /\ [][OfferStats \/ RunStats \/ TakeStats]_vars

\* the two nodes that count: the movement node or the statistics node, over
\* the frames of a video
SpecCounting ==
    /\ InitMovement \/ InitStats
    /\ [][OfferFrame \/ RunMovement \/ TakeOutputs \/ OfferStats \/ RunStats \/ TakeStats]_vars

----------------------------------------------------------------------------
(* The unit tests of are_arms_folded and is_leaning *)

\* Unit test cases for are_arms_folded(): left shoulder, left elbow, left
\* wrist, right shoulder, right elbow, right wrist
ARE_ARMS_FOLDED_POSITIVE_CASES_HALF_CROSS ==
  <<
    <<Coord(1153, 239), Coord(1184, 437), Coord(1067, 425), Coord(919, 235), Coord(864, 425), Coord(1054, 425)>>,
    <<Coord(1158, 239), Coord(1186, 434), Coord(1054, 431), Coord(917, 236), Coord(862, 424), Coord(1055, 424)>>,
    <<Coord(1158, 237), Coord(1190, 432), Coord(1051, 432), Coord(916, 234), Coord(861, 423), Coord(1052, 422)>>,
    <<Coord(1160, 238), Coord(1192, 431), Coord(1063, 433), Coord(922, 233), Coord(862, 420), Coord(1012, 417)>>,
    <<Coord(1154, 236), Coord(1189, 433), Coord(1064, 430), Coord(919, 233), Coord(860, 420), Coord(1013, 416)>>
  >>

ARE_ARMS_FOLDED_POSITIVE_CASES_FULL_CROSS ==
  <<
    <<Coord(1153, 239), Coord(1184, 437), Coord(950, 390), Coord(919, 235), Coord(864, 425), Coord(1100, 390)>>,
    <<Coord(1158, 239), Coord(1186, 434), Coord(950, 390), Coord(917, 236), Coord(862, 424), Coord(1100, 390)>>
  >>

ARE_ARMS_FOLDED_NEGATIVE_CASES_TOUCHING_FACE ==
  <<
    <<Coord(1140, 254), Coord(1197, 359), Coord(1105, 237), Coord(934, 252), Coord(897, 361), Coord(946, 252)>>,
    <<Coord(1140, 256), Coord(1194, 356), Coord(1104, 239), Coord(930, 259), Coord(889, 360), Coord(944, 255)>>,
    <<Coord(1137, 255), Coord(1191, 359), Coord(1108, 236), Coord(925, 262), Coord(885, 363), Coord(944, 254)>>,
    <<Coord(1139, 255), Coord(1194, 358), Coord(1108, 237), Coord(925, 262), Coord(890, 362), Coord(945, 254)>>
  >>

ARE_ARMS_FOLDED_NEGATIVE_CASES_OUTSTRETCHED_ARMS ==
  <<
    <<Coord(964, 573), Coord(979, 715), Coord(1010, 862), Coord(783, 573), Coord(786, 728), Coord(742, 889)>>,
    <<Coord(1076, 530), Coord(1124, 704), Coord(1110, 925), Coord(872, 532), Coord(807, 700), Coord(822, 844)>>,
    <<Coord(1069, 525), Coord(1116, 687), Coord(1110, 850), Coord(846, 537), Coord(822, 697), Coord(820, 843)>>,
    <<Coord(1054, 461), Coord(1139, 686), Coord(1193, 893), Coord(804, 470), Coord(790, 702), Coord(685, 940)>>
  >>

\* Unit test cases for is_leaning(): left shoulder, right shoulder, left hip,
\* right hip
IS_LEANING_POSITIVE_CASES ==
  <<
    <<Coord(1005, 567), Coord(825, 564), Coord(967, 876), Coord(881, 840)>>,
    <<Coord(1041, 576), Coord(824, 567), Coord(1004, 875), Coord(900, 853)>>,
    <<Coord(968, 574), Coord(795, 574), Coord(977, 875), Coord(848, 863)>>,
    <<Coord(995, 572), Coord(805, 565), Coord(994, 886), Coord(846, 867)>>,
    <<Coord(1041, 575), Coord(821, 567), Coord(1010, 884), Coord(886, 868)>>,
    <<Coord(1051, 577), Coord(844, 571), Coord(1013, 885), Coord(897, 859)>>
  >>

IS_LEANING_NEGATIVE_CASES ==
  <<
    <<Coord(990, 573), Coord(805, 567), Coord(994, 860), Coord(865, 854)>>,
    <<Coord(979, 576), Coord(806, 576), Coord(986, 882), Coord(845, 867)>>,
    <<Coord(977, 578), Coord(786, 574), Coord(976, 865), Coord(840, 859)>>,
    <<Coord(964, 573), Coord(783, 573), Coord(975, 863), Coord(837, 856)>>,
    <<Coord(968, 574), Coord(784, 573), Coord(981, 861), Coord(835, 854)>>
  >>

\* the coordinates of a case of are_arms_folded, as the test passes them
ArmsPose(coordinates) ==
    [NoPose EXCEPT ![KP_LEFT_SHOULDER] = coordinates[1],
                   ![KP_LEFT_ELBOW] = coordinates[2],
                   ![KP_LEFT_WRIST] = coordinates[3],
                   ![KP_RIGHT_SHOULDER] = coordinates[4],
                   ![KP_RIGHT_ELBOW] = coordinates[5],
                   ![KP_RIGHT_WRIST] = coordinates[6]]

\* the coordinates of a case of is_leaning, as the test passes them
LeanPose(coordinates) ==
    [NoPose EXCEPT ![KP_LEFT_SHOULDER] = coordinates[1],
                   ![KP_RIGHT_SHOULDER] = coordinates[2],
                   ![KP_LEFT_HIP] = coordinates[3],
                   ![KP_RIGHT_HIP] = coordinates[4]]

\* the poses of the cases of a list
ArmsPoses(cases) == {ArmsPose(cases[i]) : i \in DOMAIN cases}

LeanPoses(cases) == {LeanPose(cases[i]) : i \in DOMAIN cases}

\* test_..._missing: pose = [(i, i) for i in range(17)], with one or more of
\* the required coordinates set to None
MissingPoses(required_coordinates) ==
    {[j \in Joints |-> IF j \in required_coordinates \ selected_coordinates
                       THEN Coord(j, j)
                       ELSE None] :
        selected_coordinates \in (SUBSET required_coordinates) \ {{}}}

\* the poses test_arms_folded.py calls are_arms_folded with
ArmsFoldedTests ==
    ArmsPoses(ARE_ARMS_FOLDED_POSITIVE_CASES_HALF_CROSS)
    \cup ArmsPoses(ARE_ARMS_FOLDED_POSITIVE_CASES_FULL_CROSS)
    \cup ArmsPoses(ARE_ARMS_FOLDED_NEGATIVE_CASES_TOUCHING_FACE)
    \cup ArmsPoses(ARE_ARMS_FOLDED_NEGATIVE_CASES_OUTSTRETCHED_ARMS)
    \cup MissingPoses(ArmJoints)

\* the poses test_is_leaning.py calls is_leaning with
IsLeaningTests ==
    LeanPoses(IS_LEANING_POSITIVE_CASES)
    \cup LeanPoses(IS_LEANING_NEGATIVE_CASES)
    \cup MissingPoses(LeanJoints)

InitTests ==
    /\ Standalone
    /\ vec = NoVec
    /\ \/ Ready("are_arms_folded") /\ pose \in ArmsFoldedTests
       \/ Ready("is_leaning") /\ pose \in IsLeaningTests

SpecTests == InitTests /\ [][CallArmsFolded \/ CallIsLeaning]_vars

----------------------------------------------------------------------------
(* The whole model: a call of one of the functions, or the runs of a node *)

Init ==
    \/ InitAngle
    \/ InitArms
    \/ InitLean
    \/ InitFace
    \/ InitKeypoint
    \/ InitRun
    \/ InitMovement
    \/ InitTests
    \/ InitFrame
    \/ InitStats

Next ==
    \/ CallAngle
    \/ CallArmsFolded
    \/ CallIsLeaning
    \/ CallIsFaceTouched
    \/ Call_obtain_keypoint
    \/ RunArmsFolded
    \/ RunIsLeaning
    \/ RunIsTouchingFace
    \/ OfferFrame
    \/ RunMovement
    \/ TakeOutputs
    \/ OfferStats
    \/ RunStats
    \/ TakeStats

Spec == Init /\ [][Next]_vars

----------------------------------------------------------------------------
(* Geometry in which the claims are stated *)

Sub(a, b) == <<a[1] - b[1], a[2] - b[2]>>

Dot(u, w) == u[1] * w[1] + u[2] * w[2]

Norm2(u) == Dot(u, u)

Dist2(a, b) == Norm2(Sub(a, b))

Range(s) == {s[i] : i \in DOMAIN s}

Called(c) == call = c /\ pc # "ready"

\* the angle primitive gives an angle, not ERROR_OUTPUT, for u and w
AngleDefined(u, w) == angle_between_vectors_in_rad(u[1], u[2], w[1], w[2]).value # ERROR_OUTPUT

\* the angle between the non-zero vectors u and w is below 120 degrees:
\* cos > -1/2, that is 2 u.w > -|u||w|
Below120(u, w) == Dot(u, w) >= 0 \/ 4 * Dot(u, w) * Dot(u, w) < Norm2(u) * Norm2(w)

ArmsDefined == \A j \in ArmJoints : pose[j] # None

\* the four conditions of the claim on one arm
ArmFolded(shoulder, elbow, wrist) ==
    LET left_shoulder == pose[KP_LEFT_SHOULDER]
        right_shoulder == pose[KP_RIGHT_SHOULDER]
    IN  /\ AngleDefined(Sub(shoulder, elbow), Sub(wrist, elbow))
        /\ Below120(Sub(shoulder, elbow), Sub(wrist, elbow))
        /\ right_shoulder[1] <= wrist[1] /\ wrist[1] <= left_shoulder[1]
        /\ wrist[2] > min(left_shoulder[2], right_shoulder[2])
        /\ 4 * Dist2(elbow, wrist) >= Dist2(left_shoulder, right_shoulder)

LeftArmFolded == ArmFolded(pose[KP_LEFT_SHOULDER], pose[KP_LEFT_ELBOW], pose[KP_LEFT_WRIST])

RightArmFolded == ArmFolded(pose[KP_RIGHT_SHOULDER], pose[KP_RIGHT_ELBOW], pose[KP_RIGHT_WRIST])

----------------------------------------------------------------------------
(* Claims *)

\* C1: are_arms_folded returns True exactly when all six joints are defined
\* and, for both arms, the elbow angle is defined and below 120 degrees, the
\* wrist's x lies between the shoulders' x (inclusive), the wrist's y is
\* strictly greater than the smaller shoulder y, and twice the elbow-to-wrist
\* distance is at least the shoulder-to-shoulder distance; otherwise False.
C1_ArmsFoldedIff ==
    Called("are_arms_folded") =>
        /\ pc = "returned"
        /\ result \in BOOLEAN
        /\ result <=> (ArmsDefined /\ LeftArmFolded /\ RightArmFolded)

\* True is returned with both wrists on the inclusive ends of the x range and
\* the distance condition an equality on the left arm
C1_Witness ==
    /\ Called("are_arms_folded")
    /\ pc = "returned"
    /\ result = TRUE
    /\ pose[KP_LEFT_WRIST][1] = pose[KP_LEFT_SHOULDER][1]
    /\ pose[KP_RIGHT_WRIST][1] = pose[KP_RIGHT_SHOULDER][1]
    /\ 4 * Dist2(pose[KP_LEFT_ELBOW], pose[KP_LEFT_WRIST])
           = Dist2(pose[KP_LEFT_SHOULDER], pose[KP_RIGHT_SHOULDER])

\* C2: with any non-empty subset of the six arm joints undefined, whatever
\* the coordinates of the others, are_arms_folded returns False and does not raise.
C2_ArmsMissingFalse ==
    (Called("are_arms_folded") /\ ~ArmsDefined) =>
        pc = "returned" /\ raised = "none" /\ result = FALSE

\* only the right wrist is undefined and the call has returned
C2_Witness ==
    /\ Called("are_arms_folded")
    /\ pose[KP_RIGHT_WRIST] = None
    /\ \A j \in ArmJoints \ {KP_RIGHT_WRIST} : pose[j] # None
    /\ result = FALSE

LeanDefined == \A j \in LeanJoints : pose[j] # None

Cross(u, w) == u[1] * w[2] - u[2] * w[1]

Abs(n) == IF n < 0 THEN -n ELSE n

\* The angle between the non-zero vectors u and w deviates from 90 degrees by
\* more than 15 degrees, on the tangent: |u.w| > tan(15 deg) |u x w|, with
\* tan(15 deg) = 2 - sqrt 3.
Deviates15(u, w) ==
    LET d == Abs(Dot(u, w))
        c == Abs(Cross(u, w))
    IN  d > 0 /\ (d >= 2 * c \/ (2 * c - d) * (2 * c - d) < 3 * c * c)

\* the rays of the left angle (at the left hip) and of the right angle (at the right hip)
LeftTorso == Sub(pose[KP_LEFT_SHOULDER], pose[KP_LEFT_HIP])

LeftHipLine == Sub(pose[KP_RIGHT_HIP], pose[KP_LEFT_HIP])

RightTorso == Sub(pose[KP_RIGHT_SHOULDER], pose[KP_RIGHT_HIP])

RightHipLine == Sub(pose[KP_LEFT_HIP], pose[KP_RIGHT_HIP])

\* C3: with any non-empty subset of the two shoulders and two hips undefined,
\* whatever the coordinates of the others, is_leaning returns False and does not raise.
C3_LeanMissingFalse ==
    (Called("is_leaning") /\ ~LeanDefined) =>
        pc = "returned" /\ raised = "none" /\ result = FALSE

\* only the right hip is undefined and the call has returned
C3_Witness ==
    /\ Called("is_leaning")
    /\ pose[KP_RIGHT_HIP] = None
    /\ \A j \in LeanJoints \ {KP_RIGHT_HIP} : pose[j] # None
    /\ result = FALSE

C8_LeanDegenerateFalse ==
    (/\ Called("is_leaning")
     /\ LeanDefined
     /\ \/ pose[KP_LEFT_HIP] = pose[KP_RIGHT_HIP]
        \/ pose[KP_LEFT_SHOULDER] = pose[KP_LEFT_HIP]
        \/ pose[KP_RIGHT_SHOULDER] = pose[KP_RIGHT_HIP]) =>
        pc = "returned" /\ raised = "none" /\ result = FALSE

\* C9: with the six joints defined and the elbow coinciding with the shoulder
\* or the wrist of its arm, on either arm, are_arms_folded returns False, logs
\* a warning and does not raise, whatever the other arm's geometry.
C9_ArmsDegenerateFalse ==
    (/\ Called("are_arms_folded")
     /\ ArmsDefined
     /\ \/ pose[KP_LEFT_ELBOW] \in {pose[KP_LEFT_SHOULDER], pose[KP_LEFT_WRIST]}
        \/ pose[KP_RIGHT_ELBOW] \in {pose[KP_RIGHT_SHOULDER], pose[KP_RIGHT_WRIST]}) =>
        /\ pc = "returned"
        /\ raised = "none"
        /\ result = FALSE
        /\ "warning" \in Range(logger)

\* the left elbow lies on the left shoulder while the right arm alone
\* satisfies every condition of a folded arm
C9_Witness ==
    /\ Called("are_arms_folded")
    /\ ArmsDefined
    /\ pose[KP_LEFT_ELBOW] = pose[KP_LEFT_SHOULDER]
    /\ RightArmFolded
    /\ result = FALSE
    /\ "warning" \in Range(logger)

DefinedLimbs == {j \in LimbJoints : pose[j] # None}

DefinedFaces == {j \in FaceJoints : pose[j] # None}

\* the squared distance of the pair is below 100 * 100 = 10000
Within100(a, b) == (a[1] - b[1]) * (a[1] - b[1]) + (a[2] - b[2]) * (a[2] - b[2]) < 10000

\* C4: is_face_touched returns True exactly when some defined limb point and
\* some defined face point are at a distance strictly below 100 pixels
\* (dx*dx + dy*dy < 10000); a pair at distance exactly 100 does not count.
C4_FaceTouchedIff ==
    Called("is_face_touched") =>
        /\ pc = "returned"
        /\ result \in BOOLEAN
        /\ result <=> \E l \in DefinedLimbs : \E f \in DefinedFaces : Within100(pose[l], pose[f])

\* a limb point and a face point exactly 100 pixels apart, on a diagonal
\* (60, 80), and no touch reported
C4_Witness ==
    /\ Called("is_face_touched")
    /\ \E l \in DefinedLimbs : \E f \in DefinedFaces :
          /\ Abs(pose[l][1] - pose[f][1]) = 60
          /\ Abs(pose[l][2] - pose[f][2]) = 80
    /\ result = FALSE

\* C5: is_face_touched returns False, without raising, when all nine inputs
\* are undefined, when the four limb points are undefined and when the five
\* face points are undefined, whatever the other group holds.
C5_FaceGroupMissingFalse ==
    (Called("is_face_touched") /\ (DefinedLimbs = {} \/ DefinedFaces = {})) =>
        pc = "returned" /\ raised = "none" /\ result = FALSE

\* no face point is defined while MaxDefined limb points are
C5_Witness ==
    /\ Called("is_face_touched")
    /\ DefinedFaces = {}
    /\ Cardinality(DefinedLimbs) = MaxDefined
    /\ result = FALSE

\* C6: with exactly one limb slot and exactly one face slot defined, whichever
\* of the 4 x 5 slots they are, is_face_touched returns True whenever the two
\* points are less than 100 pixels apart (and False otherwise).
C6_OnePairAnySlot ==
    (/\ Called("is_face_touched")
     /\ Cardinality(DefinedLimbs) = 1
     /\ Cardinality(DefinedFaces) = 1) =>
        /\ pc = "returned"
        /\ result \in BOOLEAN
        /\ \A l \in DefinedLimbs : \A f \in DefinedFaces : result <=> Within100(pose[l], pose[f])

\* the pair in the last slots of both lists, right wrist and right ear, the
\* only defined inputs and within 100 pixels: True
C6_Witness ==
    /\ Called("is_face_touched")
    /\ DefinedLimbs = {KP_RIGHT_WRIST}
    /\ DefinedFaces = {KP_RIGHT_EAR}
    /\ pose[KP_RIGHT_WRIST] # pose[KP_RIGHT_EAR]
    /\ result = TRUE

\* C10: angle_between_vectors_in_rad returns ERROR_OUTPUT (-1) and does not
\* raise (no division by zero) whenever the first vector, the second vector
\* or both are (0, 0), whatever the other vector.
C10_ZeroVectorError ==
    (/\ Called("angle_between_vectors_in_rad")
     /\ (vec[1] = 0 /\ vec[2] = 0) \/ (vec[3] = 0 /\ vec[4] = 0)) =>
        pc = "returned" /\ raised = "none" /\ result = ERROR_OUTPUT /\ ERROR_OUTPUT = -1

\* the second vector alone is zero and the call has returned ERROR_OUTPUT
C10_Witness ==
    /\ Called("angle_between_vectors_in_rad")
    /\ vec[1] # 0
    /\ vec[2] # 0
    /\ vec[3] = 0
    /\ vec[4] = 0
    /\ result = ERROR_OUTPUT

\* the outcome of the call as its caller sees it: the value, or the exception
Outcome == [exc |-> raised, value |-> result]

\* the same of the outcome r of a function of the model
OutcomeOf(r) == [exc |-> r.exc, value |-> r.value]

\* C11: for all pairs of integer vectors v1, v2, zero vectors included,
\* angle_between_vectors_in_rad(v1, v2) gives what
\* angle_between_vectors_in_rad(v2, v1) gives: the same value (or the same
\* exception) with the two arguments swapped.
C11_AngleCommutes ==
    Called("angle_between_vectors_in_rad") =>
        Outcome = OutcomeOf(angle_between_vectors_in_rad(vec[3], vec[4], vec[1], vec[2]))

\* two non-parallel vectors of different lengths, with an angle between 120
\* and 135 degrees whichever comes first
C11_Witness ==
    /\ Called("angle_between_vectors_in_rad")
    /\ vec = <<1, 0, -2, 3>>
    /\ result = Rad(120) + 1

\* the two vectors of the direct angle call
V1 == <<vec[1], vec[2]>>

V2 == <<vec[3], vec[4]>>

NonZero(v) == v # <<0, 0>>

\* C12: for every non-zero vector v, angle_between_vectors_in_rad(v, v) is 0
\* and angle_between_vectors_in_rad(v, -v) is pi; for every pair of non-zero
\* orthogonal vectors the result is pi/2; the angle of (1, 0) with (1, 1) is
\* pi/4 and with (-1, 1) it is 3 pi / 4.
C12_SpecialAngles ==
    (Called("angle_between_vectors_in_rad") /\ NonZero(V1) /\ NonZero(V2)) =>
        /\ pc = "returned"
        /\ V2 = V1 => result = Rad(0)
        /\ V2 = <<-V1[1], -V1[2]>> => result = pi
        /\ Dot(V1, V2) = 0 => result = Rad(90)
        /\ vec = <<1, 0, 1, 1>> => result = Rad(45)
        /\ vec = <<1, 0, -1, 1>> => result = Rad(135)

\* C13: every result of angle_between_vectors_in_rad is either the sentinel
\* ERROR_OUTPUT (-1) or lies in [0, pi]; the sentinel is not in [0, pi], and
\* the result is the sentinel exactly when the call took an error path (it
\* logged an error), so a comparison with ERROR_OUTPUT tells the two apart.
C13_ErrorOrAngle ==
    (Called("angle_between_vectors_in_rad") /\ pc = "returned") =>
        /\ result = ERROR_OUTPUT \/ (Rad(0) <= result /\ result <= pi)
        /\ ~(Rad(0) <= ERROR_OUTPUT /\ ERROR_OUTPUT <= pi)
        /\ result = ERROR_OUTPUT <=> "error" \in Range(logger)

\* opposite vectors of different lengths: the result is the upper end pi, and
\* no error was logged
C13_Witness ==
    /\ Called("angle_between_vectors_in_rad")
    /\ vec = <<1, 1, -2, -2>>
    /\ result = pi
    /\ logger = <<>>

\* the integer r is the nearest one to x * size, for the fraction x, and the
\* even one of the two nearest when x * size lies half-way between them
Nearest(r, x, size) ==
    LET twice_gap == 2 * Abs(x[2] * r - x[1] * size)
    IN  twice_gap <= x[2] /\ (twice_gap = x[2] => r % 2 = 0)

C14_Resolved ==
    Called("_obtain_keypoint") =>
        /\ pc = "returned"
        /\ result = None <=> Less(inputs.score, Frac(6, 10))
        /\ (~Less(inputs.score, Frac(6, 10)) /\ node._img # None) =>
              /\ Len(result) = 2
              /\ Nearest(result[1], inputs.keypoint[1], node._img[2])
              /\ Nearest(result[2], inputs.keypoint[2], node._img[1])

\* C14: _obtain_keypoint returns None if and only if score < 0.6; for a score
\* of 0.6 or more it returns (round(rx * width), round(ry * height)) for the
\* width and height of the current frame's image; the call leaves the node's
\* attributes as they were.
C14_KeypointResolver == []C14_Resolved /\ [][node' = node]_vars

\* a score of exactly 0.6 with the keypoint in the middle of an image 5 wide
\* and 2 high: 2.5 is rounded to 2
C14_Witness ==
    /\ Called("_obtain_keypoint")
    /\ inputs.score = Frac(6, 10)
    /\ inputs.keypoint = <<Frac(1, 2), Frac(1, 2)>>
    /\ node._img = <<2, 5>>
    /\ result = Coord(2, 1)

MovementRan == call = "movement.run" /\ pc \in {"returned", "raised"}

RunNames == {"are_arms_folded.run", "is_leaning.run", "is_touching_face.run"}

NodeRan == call \in RunNames /\ pc \in {"returned", "raised"}

\* the key of the node's output
OutputKey ==
    CASE call = "are_arms_folded.run" -> "arms_folded"
      [] call = "is_leaning.run" -> "is_leaning"
      [] call = "is_touching_face.run" -> "is_touching_face"

\* the inputs hold an image, keypoint sets and tracking ids
AllGiven ==
    /\ {"img", "keypoints", "obj_attrs"} \subseteq DOMAIN inputs
    /\ "ids" \in DOMAIN inputs["obj_attrs"]

GivenIds == inputs["obj_attrs"]["ids"]

\* len(list)
len(list) == Cardinality(DOMAIN list)

\* C17: when the tracking ids and the keypoint sets of a frame differ in
\* number, run raises an error to its caller; it does not return
\* classifications for a truncated subset of the persons.
C17_MismatchRaises ==
    (NodeRan /\ AllGiven /\ len(GivenIds) # len(inputs["keypoints"])) =>
        pc = "raised"

\* C18: run of a classifier node does not raise when a key is absent.
\* Without 'img' it logs an error and returns its output key mapped to an
\* empty dictionary; with 'img' but without 'keypoints', 'obj_attrs' or the
\* ids it returns the output key mapped to an empty dictionary as well,
\* after a warning when it is 'keypoints' that is missing.
C18_AbsentKeys ==
    (NodeRan /\ ~AllGiven) =>
        /\ pc = "returned"
        /\ raised = "none"
        /\ result = [k \in {OutputKey} |-> EmptyDict]
        /\ logger = IF "img" \notin DOMAIN inputs THEN <<"error">>
                    ELSE IF "keypoints" \notin DOMAIN inputs THEN <<"warning">>
                    ELSE <<>>

\* is_leaning's node is run with an image and two tracking ids and without
\* the 'keypoints' key
C18_Witness ==
    /\ NodeRan
    /\ call = "is_leaning.run"
    /\ DOMAIN inputs = {"img", "obj_attrs"}
    /\ "ids" \in DOMAIN inputs["obj_attrs"]
    /\ len(GivenIds) = 2
    /\ result = [k \in {"is_leaning"} |-> EmptyDict]
    /\ logger = <<"warning">>

\* the joints of the i-th keypoint set on the frame's image, each at the
\* nearest pixel
ResolvedJoints(i) ==
    [j \in Joints |->
        obtain_keypoint(inputs["keypoints"][i][j][1], inputs["keypoints"][i][j][2],
                        inputs["img"][2], inputs["img"][1])]

\* what the node's classifier returns for the joints kl of a person
Classified(kl) ==
    CASE call = "are_arms_folded.run" ->
           are_arms_folded(kl[KP_LEFT_SHOULDER], kl[KP_LEFT_ELBOW], kl[KP_LEFT_WRIST],
                           kl[KP_RIGHT_SHOULDER], kl[KP_RIGHT_ELBOW], kl[KP_RIGHT_WRIST]).value
      [] call = "is_leaning.run" ->
           is_leaning(kl[KP_LEFT_SHOULDER], kl[KP_RIGHT_SHOULDER],
                      kl[KP_LEFT_HIP], kl[KP_RIGHT_HIP]).value
      [] call = "is_touching_face.run" ->
           is_face_touched(kl[KP_LEFT_ELBOW], kl[KP_RIGHT_ELBOW], kl[KP_LEFT_WRIST],
                           kl[KP_RIGHT_WRIST], kl[KP_NOSE], kl[KP_LEFT_EYE],
                           kl[KP_RIGHT_EYE], kl[KP_LEFT_EAR], kl[KP_RIGHT_EAR]).value

\* as many distinct tracking ids as keypoint sets
WellFormed ==
    /\ AllGiven
    /\ len(GivenIds) = len(inputs["keypoints"])
    /\ \A i \in DOMAIN GivenIds : \A m \in DOMAIN GivenIds : GivenIds[i] = GivenIds[m] => i = m

\* C19: for a frame with well-formed inputs, run of a classifier node
\* returns, under its output key, one entry for each tracking id and for no
\* other id; the entry of an id is 0 or 1 and is 1 exactly when the node's
\* classifier returns True on the resolved joints of the keypoint set paired
\* with that id.
C19_OneEntryPerId ==
    (NodeRan /\ WellFormed) =>
        /\ pc = "returned"
        /\ DOMAIN result = {OutputKey}
        /\ DOMAIN result[OutputKey] = {GivenIds[i] : i \in DOMAIN GivenIds}
        /\ \A i \in DOMAIN GivenIds :
              /\ result[OutputKey][GivenIds[i]] \in {0, 1}
              /\ result[OutputKey][GivenIds[i]] = 1 <=> Classified(ResolvedJoints(i))

\* two persons with the ids 2 and 1, in this order: the first one's arms are
\* folded, the second one's are not
C19_Witness ==
    /\ NodeRan
    /\ call = "are_arms_folded.run"
    /\ WellFormed
    /\ GivenIds = List(<<2, 1>>)
    /\ result[OutputKey][2] = 1
    /\ result[OutputKey][1] = 0

\* the joints in the order of the claim, and the name of each
JointOrder ==
    <<KP_NOSE, KP_LEFT_EYE, KP_RIGHT_EYE, KP_LEFT_EAR, KP_RIGHT_EAR,
      KP_LEFT_SHOULDER, KP_RIGHT_SHOULDER, KP_LEFT_ELBOW, KP_RIGHT_ELBOW,
      KP_LEFT_WRIST, KP_RIGHT_WRIST, KP_LEFT_HIP, KP_RIGHT_HIP,
      KP_LEFT_KNEE, KP_RIGHT_KNEE, KP_LEFT_FOOT, KP_RIGHT_FOOT>>

JointNames ==
    <<"nose", "left_eye", "right_eye", "left_ear", "right_ear",
      "left_shoulder", "right_shoulder", "left_elbow", "right_elbow",
      "left_wrist", "right_wrist", "left_hip", "right_hip",
      "left_knee", "right_knee", "left_foot", "right_foot">>

\* the ordinal of the joint of that name: its place in the order, from 0
Ordinal(name) == (CHOOSE k \in DOMAIN JointNames : JointNames[k] = name) - 1

\* the names of the parameters of each classifier, in the order of its signature
Parameters(fn) ==
    CASE fn = "are_arms_folded" ->
           <<"left_shoulder", "left_elbow", "left_wrist",
             "right_shoulder", "right_elbow", "right_wrist">>
      [] fn = "is_face_touched" ->
           <<"left_elbow", "right_elbow", "left_wrist", "right_wrist",
             "nose", "left_eye", "right_eye", "left_ear", "right_ear">>
      [] fn = "is_leaning" ->
           <<"left_shoulder", "right_shoulder", "left_hip", "right_hip">>

\* the keypoint_list that run builds for the person at position p of the frame
KeypointListOf(p) ==
    movement_keypoint_list(node, inputs["keypoints"][p], inputs["keypoint_scores"][p])

\* C20: the joint indices are the ordinals 0 .. 16 in the order nose, left
\* eye, right eye, left ear, right ear, left shoulder, right shoulder, left
\* elbow, right elbow, left wrist, right wrist, left hip, right hip, left
\* knee, right knee, left foot, right foot, 17 distinct values; and each
\* classifier call of run (three for a person, in the frame's order) gets as
\* its arguments the joints of the person's keypoint_list at the ordinals of
\* the names of the classifier's parameters, in the parameters' order.
C20_JointOrderAndWiring ==
    /\ \A k \in DOMAIN JointOrder : JointOrder[k] = k - 1
    /\ Cardinality(Range(JointOrder)) = 17
    /\ Joints = Range(JointOrder)
    /\ MovementRan =>
          \A k \in DOMAIN trace :
              trace[k].exc # "IndexError" =>
                  trace[k].args =
                      [m \in DOMAIN Parameters(trace[k].fn) |->
                          KeypointListOf((k - 1) \div 3)[Ordinal(Parameters(trace[k].fn)[m])]]

\* a frame with two persons: the first one's wrists are below the threshold
\* and reach are_arms_folded as None, the second one's joints are all defined
C20_Witness ==
    /\ MovementRan
    /\ pc = "returned"
    /\ Len(trace) = 6
    /\ trace[1].fn = "are_arms_folded"
    /\ trace[1].args[3] = None
    /\ trace[1].args[2] # None
    /\ trace[5].fn = "is_face_touched"
    /\ \A m \in DOMAIN trace[5].args : trace[5].args[m] # None
    /\ trace[6].fn = "is_leaning"
    /\ trace[6].args[3] # trace[6].args[4]

----------------------------------------------------------------------------
(* The unit test cases *)

\* the wrists of the pose are at or above the height of the higher shoulder
\* (y grows downwards)
WristsNotBelowShoulders(p) ==
    /\ p[KP_LEFT_WRIST][2] <= min(p[KP_LEFT_SHOULDER][2], p[KP_RIGHT_SHOULDER][2])
    /\ p[KP_RIGHT_WRIST][2] <= min(p[KP_LEFT_SHOULDER][2], p[KP_RIGHT_SHOULDER][2])

\* C21: are_arms_folded returns True on every half-crossed and every
\* fully-crossed test case, and False on every touching-face test case (whose
\* wrists are at or above shoulder height) and every outstretched-arms test
\* case of visualise.py.
C21_ArmsFoldedCases ==
    (call = "are_arms_folded" /\ pc # "ready") =>
        /\ pose \in ArmsPoses(ARE_ARMS_FOLDED_POSITIVE_CASES_HALF_CROSS)
                     \cup ArmsPoses(ARE_ARMS_FOLDED_POSITIVE_CASES_FULL_CROSS)
              => pc = "returned" /\ result = TRUE
        /\ pose \in ArmsPoses(ARE_ARMS_FOLDED_NEGATIVE_CASES_TOUCHING_FACE)
              => pc = "returned" /\ result = FALSE /\ WristsNotBelowShoulders(pose)
        /\ pose \in ArmsPoses(ARE_ARMS_FOLDED_NEGATIVE_CASES_OUTSTRETCHED_ARMS)
              => pc = "returned" /\ result = FALSE

\* the first half-crossed case has been classified as folded
C21_Witness ==
    /\ call = "are_arms_folded"
    /\ pc = "returned"
    /\ pose = ArmsPose(<<Coord(1153, 239), Coord(1184, 437), Coord(1067, 425),
                         Coord(919, 235), Coord(864, 425), Coord(1054, 425)>>)
    /\ result = TRUE

\* C22: is_leaning returns True on every positive and False on every negative
\* test case of visualise.py, under the tolerance of 15 degrees.
C22_IsLeaningCases ==
    (call = "is_leaning" /\ pc # "ready") =>
        /\ pose \in LeanPoses(IS_LEANING_POSITIVE_CASES)
              => pc = "returned" /\ result = TRUE
        /\ pose \in LeanPoses(IS_LEANING_NEGATIVE_CASES)
              => pc = "returned" /\ result = FALSE

\* the first positive case has been classified as leaning
C22_Witness ==
    /\ call = "is_leaning"
    /\ pc = "returned"
    /\ pose = LeanPose(<<Coord(1005, 567), Coord(825, 564), Coord(967, 876), Coord(881, 840)>>)
    /\ result = TRUE

----------------------------------------------------------------------------
(* Confidence of the joints *)

\* the calls one person gets in a run: three in the movement node, one in a
\* classifier node
CallsPerPerson == IF call = "movement.run" THEN 3 ELSE 1

\* the position in the frame of the person the t-th call of the run is about
PersonOfCall(t) == (t - 1) \div CallsPerPerson

\* the score the detector gave the joint passed as the k-th argument of the
\* t-th call
ScoreOfArgument(t, k) ==
    inputs["keypoint_scores"][PersonOfCall(t)][indices(trace[t].fn)[k]]

\* C23: on every path from the detector's keypoints to a classifier, a joint
\* whose confidence score is below 0.6 reaches the classifier as undefined:
\* in the movement node's run and in the run of every classifier node.
C23_LowConfidenceUndefined ==
    pc # "ready" =>
        \A t \in DOMAIN trace : \A k \in DOMAIN trace[t].args :
            Less(ScoreOfArgument(t, k), _THRESHOLD) => trace[t].args[k] = None

\* the same, on the path through the movement node alone
MovementPathFilters ==
    call = "movement.run" => C23_LowConfidenceUndefined

----------------------------------------------------------------------------
(* Independence of the three signals *)

Classifiers == {"are_arms_folded", "is_face_touched", "is_leaning"}

Knees == {KP_LEFT_KNEE, KP_RIGHT_KNEE}

Feet == {KP_LEFT_FOOT, KP_RIGHT_FOOT}

Shoulders == {KP_LEFT_SHOULDER, KP_RIGHT_SHOULDER}

Hips == {KP_LEFT_HIP, KP_RIGHT_HIP}

\* the joints a classifier does not take as input: knees and feet for all
\* three, hips and face points for arm-fold, arms and face for lean, shoulders
\* and hips for face-touch
ForeignJoints(fn) ==
    CASE fn = "are_arms_folded" -> Knees \cup Feet \cup Hips \cup FaceJoints
      [] fn = "is_leaning" -> Knees \cup Feet \cup LimbJoints \cup FaceJoints
      [] fn = "is_face_touched" -> Knees \cup Feet \cup Shoulders \cup Hips

\* what a joint is changed to: undefined, or another coordinate
Replacements == {None, Coord(0, 0), Coord(2, 3), Coord(200, 100)}

\* the orders in which the three classifiers can be evaluated
Orders == {order \in [1..3 -> Classifiers] : \A a, b \in 1..3 : order[a] = order[b] => a = b}

\* the call of fn that run has made for the person at position p of the frame
CallOf(p, fn) == trace[CHOOSE t \in (3 * p + 1)..(3 * p + 3) : trace[t].fn = fn]

----------------------------------------------------------------------------
(* The running counters of the movement node *)

\* the percentage of the frames that a counter stands for lies in [0, 100]
PercentageInRange(count, total) == 0 <= count * 100 /\ count * 100 <= 100 * total

\* C25: in the movement node, after any sequence of runs each running counter
\* (arm-fold, leaning, face-touch) is at most the count of the processed
\* frames, and so every percentage lies in [0, 100], also when a frame holds
\* more than one detected person.
C25_CountersCountFrames ==
    (call = "movement.run" /\ pc \in {"idle", "ready", "returned"}) =>
        /\ PercentageInRange(node._arm_fold_count, node._total_frame_count)
        /\ PercentageInRange(node._leaning_count, node._total_frame_count)
        /\ PercentageInRange(node._face_touch_count, node._total_frame_count)

----------------------------------------------------------------------------
(* The counters of the statistics node *)

\* the counter of a table for an id (a defaultdict(int) reads 0 where it has
\* no entry) lies between 0 and the total of the id
WithinTotal(table, id) ==
    /\ 0 <= get(table, id, 0)
    /\ get(table, id, 0) <= node._total_frames[id]

\* C26: in the statistics node, after any sequence of runs with classification
\* values 0 or 1, every id of the total-frames table has total_frames[id] >= 1
\* and 0 <= arms_folded_frames[id], leaning_frames[id],
\* touching_face_frames[id] <= total_frames[id]; so the percentages of an id
\* never divide by zero and never exceed 100.
C26_StatsCountersBounded ==
    call = "stats.run" =>
        /\ raised = "none"
        /\ \A id \in DOMAIN node._total_frames :
              /\ node._total_frames[id] >= 1
              /\ WithinTotal(node._arms_folded_frames, id)
              /\ WithinTotal(node._leaning_frames, id)
              /\ WithinTotal(node._touching_face_frames, id)
              /\ PercentageInRange(get(node._arms_folded_frames, id, 0), node._total_frames[id])
              /\ PercentageInRange(get(node._leaning_frames, id, 0), node._total_frames[id])
              /\ PercentageInRange(get(node._touching_face_frames, id, 0), node._total_frames[id])

\* a person counted in two frames, with arms folded in both and leaning in
\* one, next to a person counted once
C26_Witness ==
    /\ call = "stats.run"
    /\ pc = "returned"
    /\ DOMAIN node._total_frames = {1, 2}
    /\ node._total_frames[2] = 2
    /\ node._arms_folded_frames[2] = 2
    /\ node._leaning_frames[2] = 1
    /\ node._touching_face_frames[2] = 0
    /\ node._total_frames[1] = 1

----------------------------------------------------------------------------
(* Frames without an image *)

\* run is about to be called with inputs that lack the 'img' key
RunWithoutImage ==
    /\ call \in {"movement.run", "stats.run"}
    /\ pc = "ready"
    /\ "img" \notin DOMAIN inputs

\* the step leaves every counter of the node as it is: the four counts of
\* the movement node, the four tables by id of the statistics node
CountersUnchanged ==
    /\ call = "movement.run" =>
          /\ node'._arm_fold_count = node._arm_fold_count
          /\ node'._leaning_count = node._leaning_count
          /\ node'._face_touch_count = node._face_touch_count
          /\ node'._total_frame_count = node._total_frame_count
    /\ call = "stats.run" =>
          /\ node'._total_frames = node._total_frames
          /\ node'._arms_folded_frames = node._arms_folded_frames
          /\ node'._leaning_frames = node._leaning_frames
          /\ node'._touching_face_frames = node._touching_face_frames

\* C27: a run whose inputs lack the 'img' key returns an empty result and
\* leaves every counter of the node unchanged, in the movement node and in
\* the statistics node: a frame without an image is never counted.
C27_NoImageNoCount ==
    [][RunWithoutImage => (pc' = "returned" /\ result' = EmptyDict /\ CountersUnchanged)]_vars

\* the movement node has returned from a frame without an image, after it
\* has counted a frame with two persons
C27_Witness ==
    /\ call = "movement.run"
    /\ pc = "returned"
    /\ "img" \notin DOMAIN inputs
    /\ logger = <<"error">>
    /\ node._total_frame_count = 1
    /\ node._arm_fold_count = 2

----------------------------------------------------------------------------
(* Monotonicity of is_face_touched *)

\* the nine inputs of is_face_touched
FaceTouchJoints == LimbJoints \cup FaceJoints

\* the outcome of is_face_touched on the pose p
FaceTouchedOn(p) ==
    is_face_touched(p[KP_LEFT_ELBOW], p[KP_RIGHT_ELBOW], p[KP_LEFT_WRIST], p[KP_RIGHT_WRIST],
                    p[KP_NOSE], p[KP_LEFT_EYE], p[KP_RIGHT_EYE], p[KP_LEFT_EAR], p[KP_RIGHT_EAR])

\* C28: is_face_touched is monotone in the set of its defined inputs: when
\* it has returned True, it returns True as well with any one undefined
\* input turned into any coordinate; when it has returned False, it returns
\* False as well with any one defined input turned into undefined.
C28_FaceTouchMonotone ==
    (call = "is_face_touched" /\ pc # "ready") =>
        /\ pc = "returned"
        /\ result = TRUE =>
              \A j \in FaceTouchJoints : \A c \in FaceCoords :
                  pose[j] = None =>
                      /\ FaceTouchedOn([pose EXCEPT ![j] = c]).exc = "none"
                      /\ FaceTouchedOn([pose EXCEPT ![j] = c]).value = TRUE
        /\ result = FALSE =>
              \A j \in FaceTouchJoints :
                  pose[j] # None =>
                      /\ FaceTouchedOn([pose EXCEPT ![j] = None]).exc = "none"
                      /\ FaceTouchedOn([pose EXCEPT ![j] = None]).value = FALSE

\* the left wrist touches the nose, with the left elbow undefined, which
\* is_face_touched would look at first
C28_Witness ==
    /\ call = "is_face_touched"
    /\ pc = "returned"
    /\ result = TRUE
    /\ pose[KP_LEFT_ELBOW] = None
    /\ pose[KP_LEFT_WRIST] # None
    /\ pose[KP_NOSE] # None
    /\ pose[KP_RIGHT_EAR] # None
    /\ ~touching(pose[KP_LEFT_WRIST], pose[KP_RIGHT_EAR])

----------------------------------------------------------------------------
(* Translation of a pose *)

\* the offsets (dx, dy) by which the poses are moved
OffsetXs == {-3, 0, 5}

OffsetYs == {-2, 0, 640}

Offsets == {Coord(dx, dy) : dx \in OffsetXs, dy \in OffsetYs}

\* the pose p with the offset d added to every defined joint
Translate(p, d) ==
    [j \in Joints |-> IF p[j] = None THEN None ELSE Coord(p[j][1] + d[1], p[j][2] + d[2])]

\* the outcome of are_arms_folded on the pose p
ArmsFoldedOn(p) ==
    are_arms_folded(p[KP_LEFT_SHOULDER], p[KP_LEFT_ELBOW], p[KP_LEFT_WRIST],
                    p[KP_RIGHT_SHOULDER], p[KP_RIGHT_ELBOW], p[KP_RIGHT_WRIST])

\* the outcome of is_leaning on the pose p
LeaningOn(p) ==
    is_leaning(p[KP_LEFT_SHOULDER], p[KP_RIGHT_SHOULDER], p[KP_LEFT_HIP], p[KP_RIGHT_HIP])

\* the outcome of the classifier named c on the pose p
ClassifierOn(c, p) ==
    CASE c = "are_arms_folded" -> ArmsFoldedOn(p)
      [] c = "is_leaning" -> LeaningOn(p)
      [] c = "is_face_touched" -> FaceTouchedOn(p)

\* C29: the three classifiers are translation-invariant: once
\* are_arms_folded, is_leaning or is_face_touched has finished on a pose,
\* the same call on the pose with one offset (dx, dy) added to every defined
\* joint has the same outcome (the same returned value, the same exception).
C29_TranslationInvariant ==
    (call \in {"are_arms_folded", "is_leaning", "is_face_touched"} /\ pc # "ready") =>
        \A d \in Offsets :
            /\ ClassifierOn(call, Translate(pose, d)).exc = raised
            /\ ClassifierOn(call, Translate(pose, d)).value = result

\* is_leaning has returned True on a pose with the four joints defined, and
\* returns True on the pose moved by (5, 640) as well
C29_Witness ==
    /\ call = "is_leaning"
    /\ pc = "returned"
    /\ result = TRUE
    /\ \A j \in LeanJoints : pose[j] # None
    /\ Translate(pose, Coord(5, 640)) # pose
    /\ LeaningOn(Translate(pose, Coord(5, 640))).value = TRUE

----------------------------------------------------------------------------
(* The order of the shoulders in are_arms_folded *)

\* the left shoulder of the pose lies strictly to the left of the right one
ShouldersSwapped ==
    /\ pose[KP_LEFT_SHOULDER] # None
    /\ pose[KP_RIGHT_SHOULDER] # None
    /\ pose[KP_LEFT_SHOULDER][1] < pose[KP_RIGHT_SHOULDER][1]

\* C30: are_arms_folded returns True only on a pose with
\* right_shoulder_x <= left_shoulder_x; on every pose whose left shoulder
\* has a strictly smaller x than its right shoulder the call returns False.
C30_ShoulderOrder ==
    (call = "are_arms_folded" /\ pc # "ready") =>
        /\ result = TRUE =>
              /\ pose[KP_LEFT_SHOULDER] # None
              /\ pose[KP_RIGHT_SHOULDER] # None
              /\ pose[KP_RIGHT_SHOULDER][1] <= pose[KP_LEFT_SHOULDER][1]
        /\ ShouldersSwapped => (pc = "returned" /\ result = FALSE)

\* are_arms_folded has returned False on a pose with the shoulders swapped
\* whose mirror image, the left and right joints exchanged, has folded arms
C30_Witness ==
    /\ call = "are_arms_folded"
    /\ pc = "returned"
    /\ result = FALSE
    /\ ShouldersSwapped
    /\ \A j \in ArmJoints : pose[j] # None
    /\ are_arms_folded(pose[KP_RIGHT_SHOULDER], pose[KP_RIGHT_ELBOW], pose[KP_RIGHT_WRIST],
                       pose[KP_LEFT_SHOULDER], pose[KP_LEFT_ELBOW], pose[KP_LEFT_WRIST]).value = TRUE

====
